---- MODULE Spec2Model ----
(***************************************************************************)
(* A model of the programs of the notebook 07-functions-modules.ipynb:     *)
(*   - vectools.py: norm and unitvector on numpy integer arrays,           *)
(*   - the program files module1.py, vectools.py, the square listing and   *)
(*     the three primes5 variants, executed statement by statement either  *)
(*     as a program (python3 file.py) or by an import,                     *)
(*   - the code cells of the notebook executed in an interactive kernel,   *)
(*   - returnstars and print_centred_in_stars called on bounded arguments. *)
(*                                                                         *)
(* Number representation.  numpy's default integer dtype is int64; an      *)
(* int64 is modelled as its eight bytes, least significant first, in two's *)
(* complement, so that array arithmetic wraps modulo 2^64 as numpy's does. *)
(* A Python float is modelled as a decimal fixed-point number of three     *)
(* decimals, truncated toward zero.                                        *)
(***************************************************************************)
EXTENDS Integers, Sequences, FiniteSets, TLC

VARIABLES
    vec,      \* the numpy array passed to norm / unitvector
    call,     \* the vectools function last called on vec ("" before any call)
    res,      \* what that call did: [exc, val, divs]
    frame,    \* the program file being executed: its globals, position, output
    status,   \* "idle", "running" or "done": the state of that execution
    loaded,   \* sys.modules of the importing session: the modules imported
    bound,    \* the module names bound in the importing session's namespace
    modules,  \* the namespace of each module object the session holds
    ns,       \* the notebook kernel's namespace: name -> value ("" unbound)
    cell,     \* the code cell executed last
    out,      \* what that cell wrote to standard output
    shown,    \* the value that cell displayed as its result ("" if none)
    err,      \* the exception that ended that cell ("" if none)
    disk,     \* the files of the notebook's working directory
    kloaded,  \* sys.modules of the kernel: the modules it has imported
    procs,    \* the number of processes the kernel has started
    steps,    \* the number of cells executed in the session
    sarg,     \* the string passed to print_centred_in_stars
    narg,     \* the number passed to returnstars
    scall,    \* the one of these two functions called last ("" before)
    sline,    \* what print_centred_in_stars printed
    sret      \* what returnstars returned

vecvars == <<vec, call, res>>
modvars == <<frame, status, loaded, bound, modules>>
nbvars == <<ns, cell, out, shown, err, disk, kloaded, procs, steps>>
starvars == <<sarg, narg, scall, sline, sret>>
vars == <<vec, call, res, frame, status, loaded, bound, modules,
          ns, cell, out, shown, err, disk, kloaded, procs, steps,
          sarg, narg, scall, sline, sret>>

(***************************************************************************)
(* Bounds of the model.                                                    *)
(***************************************************************************)
MaxLen == 3       \* longest input vector
MaxComp == 2      \* largest absolute value of a small vector component
MaxCells == 3     \* most cells executed in one kernel session
MaxString == 48   \* longest string passed to print_centred_in_stars
MaxStars == 4     \* largest number passed to returnstars

(***************************************************************************)
(* int64 arithmetic (numpy's default dtype of N.array([0, 1, 2])).         *)
(***************************************************************************)
Limbs == 1..8

\* The int64 holding v, for an integer v of at most 32 bits.
FromInt(v) ==
    [k \in Limbs |->
        IF k <= 3 THEN (v \div (256 ^ (k - 1))) % 256
        ELSE IF k = 4 THEN (v \div (256 ^ 3)) % 256
        ELSE IF v < 0 THEN 255 ELSE 0]

IsNegative(a) == a[8] >= 128
IsZero(a) == \A k \in Limbs : a[k] = 0

\* An int64 whose value lies in -(2^31) .. 2^31 - 1.
FitsInt(a) ==
    \/ (\A k \in 5..8 : a[k] = 0) /\ a[4] < 128
    \/ (\A k \in 5..8 : a[k] = 255) /\ a[4] >= 128

\* The value of such an int64.
ToInt(a) ==
    a[1] + 256 * a[2] + 65536 * a[3]
    + (IF a[4] >= 128 THEN a[4] - 256 ELSE a[4]) * (256 ^ 3)

RECURSIVE ColumnSum(_, _, _, _)
\* sum of a[i] * b[k + 1 - i] for i = 1 .. i
ColumnSum(a, b, k, i) ==
    IF i = 0 THEN 0 ELSE a[i] * b[k + 1 - i] + ColumnSum(a, b, k, i - 1)

RECURSIVE MulFrom(_, _, _, _)
MulFrom(a, b, k, carry) ==
    IF k > 8 THEN <<>>
    ELSE LET t == carry + ColumnSum(a, b, k, k)
         IN  <<t % 256>> \o MulFrom(a, b, k + 1, t \div 256)

\* a * b modulo 2^64: the product of two int64 as numpy computes it.
Mul64(a, b) == MulFrom(a, b, 1, 0)

RECURSIVE AddFrom(_, _, _, _)
AddFrom(a, b, k, carry) ==
    IF k > 8 THEN <<>>
    ELSE LET t == carry + a[k] + b[k]
         IN  <<t % 256>> \o AddFrom(a, b, k + 1, t \div 256)

\* a + b modulo 2^64.
Add64(a, b) == AddFrom(a, b, 1, 0)

(***************************************************************************)
(* Natural numbers of any size: the limbs of a number in base Scale, least *)
(* significant first, the last limb not 0; the number 0 has no limb.       *)
(***************************************************************************)
Scale == 10 ^ 3

RECURSIVE Trim(_)
Trim(a) ==
    IF a = <<>> THEN a
    ELSE IF a[Len(a)] = 0 THEN Trim(SubSeq(a, 1, Len(a) - 1))
    ELSE a

RECURSIVE DecOfNat(_)
\* the natural number v of at most 31 bits
DecOfNat(v) == IF v = 0 THEN <<>> ELSE <<v % Scale>> \o DecOfNat(v \div Scale)

RECURSIVE MulSmall(_, _, _)
\* a * m + carry, for m <= Scale
MulSmall(a, m, carry) ==
    IF a = <<>> THEN DecOfNat(carry)
    ELSE LET t == a[1] * m + carry
         IN  <<t % Scale>> \o MulSmall(Tail(a), m, t \div Scale)

RECURSIVE DecAdd(_, _, _)
DecAdd(a, b, carry) ==
    IF a = <<>> /\ b = <<>> THEN DecOfNat(carry)
    ELSE LET t == (IF a = <<>> THEN 0 ELSE a[1])
                  + (IF b = <<>> THEN 0 ELSE b[1]) + carry
         IN  <<t % Scale>>
             \o DecAdd(IF a = <<>> THEN a ELSE Tail(a),
                       IF b = <<>> THEN b ELSE Tail(b), t \div Scale)

\* a * Scale ^ k
Shift(a, k) == IF a = <<>> THEN a ELSE [i \in 1..k |-> 0] \o a

RECURSIVE DecMul(_, _)
DecMul(a, b) ==
    IF a = <<>> \/ b = <<>> THEN <<>>
    ELSE Trim(DecAdd(MulSmall(b, a[1], 0), Shift(DecMul(Tail(a), b), 1), 0))

RECURSIVE LeqFrom(_, _, _)
LeqFrom(a, b, k) ==
    IF k = 0 THEN TRUE
    ELSE IF a[k] # b[k] THEN a[k] < b[k]
    ELSE LeqFrom(a, b, k - 1)

\* a <= b
DecLeq(a, b) ==
    IF Len(a) # Len(b) THEN Len(a) < Len(b) ELSE LeqFrom(a, b, Len(a))

\* q * q <= n if square, q * d <= n otherwise
Holds(n, d, square, q) ==
    LET t == Trim(q) IN DecLeq(DecMul(t, IF square THEN t ELSE d), n)

RECURSIVE LimbBetween(_, _, _, _, _, _, _)
\* the largest limb in lo .. hi that q can have at pos, given that lo can
LimbBetween(n, d, square, q, pos, lo, hi) ==
    IF lo >= hi THEN lo
    ELSE LET mid == (lo + hi + 1) \div 2
         IN  IF Holds(n, d, square, [q EXCEPT ![pos] = mid])
             THEN LimbBetween(n, d, square, q, pos, mid, hi)
             ELSE LimbBetween(n, d, square, q, pos, lo, mid - 1)

RECURSIVE Largest(_, _, _, _, _)
\* the largest q that Holds, limb by limb from the most significant one
Largest(n, d, square, q, pos) ==
    IF pos = 0 THEN Trim(q)
    ELSE Largest(n, d, square,
                 [q EXCEPT ![pos] =
                      LimbBetween(n, d, square, q, pos, 0, Scale - 1)],
                 pos - 1)

\* the integer part of the square root of n
DecSqrt(n) ==
    LET w == (Len(n) + 1) \div 2
    IN  Largest(n, <<>>, TRUE, [k \in 1..w |-> 0], w)

\* the integer part of n / d, for d # 0
DecDiv(n, d) == Largest(n, d, FALSE, [k \in 1..Len(n) |-> 0], Len(n))

\* -a modulo 2^64
Negate64(a) == Add64([k \in Limbs |-> 255 - a[k]], FromInt(1))

RECURSIVE UnsignedFrom(_, _)
\* the number that the bytes k .. 8 of a hold
UnsignedFrom(a, k) ==
    IF k > 8 THEN <<>>
    ELSE Trim(MulSmall(UnsignedFrom(a, k + 1), 256, a[k]))

\* the absolute value of the int64 a
Magnitude(a) ==
    IF IsNegative(a) THEN UnsignedFrom(Negate64(a), 1) ELSE UnsignedFrom(a, 1)

(***************************************************************************)
(* Floats: [neg, mag] stands for mag / Scale, negated if neg; the first    *)
(* limb of mag holds the three decimals.                                   *)
(***************************************************************************)
\* the float k / Scale, for a natural number k of at most 31 bits
Float(k) == [neg |-> FALSE, mag |-> DecOfNat(k)]

\* math.sqrt of the int64 s >= 0, as a float.
Sqrt(s) == [neg |-> FALSE, mag |-> DecSqrt(Shift(Magnitude(s), 2))]

\* the int64 e divided by the float d # 0 (true division), as a float
TrueDiv(e, d) ==
    LET q == DecDiv(Shift(Magnitude(e), 2), d.mag)
    IN  [neg |-> q # <<>> /\ (IsNegative(e) # d.neg), mag |-> q]

(***************************************************************************)
(* vectools.py                                                             *)
(***************************************************************************)
NoError == ""
MathDomainError == "ValueError: math domain error"
ZeroLengthError == "ValueError: Can't normalise vector with length 0"

NoResult == [exc |-> NoError, val |-> <<>>, divs |-> 0]

VecIdle ==
    /\ vec = <<>>
    /\ call = ""
    /\ res = NoResult

StarsIdle ==
    /\ sarg = ""
    /\ narg = 0
    /\ scall = ""
    /\ sline = ""
    /\ sret = ""

\* x ** 2 on an int64 array: every element times itself, wrapping.
Squared(x) == [i \in 1..Len(x) |-> Mul64(x[i], x[i])]

RECURSIVE SumFrom(_, _, _)
\* Python's sum: the running total after adding a[i], a[i + 1], ...
SumFrom(a, i, total) ==
    IF i > Len(a) THEN total ELSE SumFrom(a, i + 1, Add64(total, a[i]))

PySum(a) == SumFrom(a, 1, FromInt(0))

\* math.sqrt(v): raises ValueError for v < 0.
MathSqrt(v) ==
    IF IsNegative(v) THEN [exc |-> MathDomainError, val |-> Float(0)]
    ELSE [exc |-> NoError, val |-> Sqrt(v)]

\* def norm(x): return math.sqrt(sum(x ** 2))
norm(x) == MathSqrt(PySum(Squared(x)))

\* x / d for an int64 array x and a float d.
ArrayDiv(x, d) == [i \in 1..Len(x) |-> TrueDiv(x[i], d)]

\* def unitvector(x)
unitvector(x) ==
    LET xnorm == norm(x)
    IN  IF xnorm.exc # NoError
        THEN [exc |-> xnorm.exc, val |-> <<>>, divs |-> 0]
        ELSE IF xnorm.val = Float(0)
        THEN [exc |-> ZeroLengthError, val |-> <<>>, divs |-> 0]
        ELSE LET again == norm(x)
             IN  IF again.exc # NoError
                 THEN [exc |-> again.exc, val |-> <<>>, divs |-> 0]
                 ELSE [exc |-> NoError, val |-> ArrayDiv(x, again.val),
                       divs |-> 1]

(***************************************************************************)
(* Text of values, as str() and the % operator give it.  A float prints    *)
(* the decimals the float model carries, without the zeros at their end.   *)
(***************************************************************************)
StrInt(n) == ToString(n)

\* a limb below the first: its three digits
Pad3(d) ==
    (IF d < 10 THEN "00" ELSE IF d < 100 THEN "0" ELSE "") \o ToString(d)

RECURSIVE PaddedFrom(_, _)
PaddedFrom(a, k) == IF k = 0 THEN "" ELSE Pad3(a[k]) \o PaddedFrom(a, k - 1)

\* the digits of a natural number
DecText(a) ==
    IF a = <<>> THEN "0"
    ELSE ToString(a[Len(a)]) \o PaddedFrom(a, Len(a) - 1)

\* str of an int64
StrInt64(v) == (IF IsNegative(v) THEN "-" ELSE "") \o DecText(Magnitude(v))

\* the integer part of a float's absolute value
Whole(f) == IF f.mag = <<>> THEN <<>> ELSE Tail(f.mag)

\* the decimals of a float, without the zeros at their end
Decimals(f) ==
    LET d == IF f.mag = <<>> THEN 0 ELSE f.mag[1]
    IN  IF d = 0 THEN ""
        ELSE IF d % 100 = 0 THEN ToString(d \div 100)
        ELSE IF d % 10 = 0
        THEN (IF d < 100 THEN "0" ELSE "") \o ToString(d \div 10)
        ELSE Pad3(d)

Sign(f) == IF f.neg THEN "-" ELSE ""

\* str of a float below 10^16: at least one decimal
StrFloat(f) ==
    Sign(f) \o DecText(Whole(f)) \o "."
    \o (IF Decimals(f) = "" THEN "0" ELSE Decimals(f))

RECURSIVE Blanks(_)
Blanks(n) == IF n <= 0 THEN "" ELSE " " \o Blanks(n - 1)

RECURSIVE Widest(_, _)
\* the length of the longest of the texts t[1 .. k]
Widest(t, k) ==
    IF k = 0 THEN 0
    ELSE LET w == Widest(t, k - 1)
         IN  IF Len(t[k]) > w THEN Len(t[k]) ELSE w

RECURSIVE Joined(_, _)
\* the texts of t, separated by blanks
Joined(t, k) ==
    IF k > Len(t) THEN ""
    ELSE t[k] \o (IF k < Len(t) THEN " " ELSE "") \o Joined(t, k + 1)

\* str of an int64 array: the elements right-aligned to the widest one
StrArray(x) ==
    LET t == [k \in 1..Len(x) |-> StrInt64(x[k])]
        w == Widest(t, Len(t))
    IN  "[" \o Joined([k \in 1..Len(t) |-> Blanks(w - Len(t[k])) \o t[k]], 1)
        \o "]"

\* str of a float array whose elements print in fixed notation, in the
\* format of the recorded output: room for a sign, the integer parts
\* right-aligned, the decimals filled with blanks to the longest
StrFloatArray(v) ==
    LET ints == [k \in 1..Len(v) |-> DecText(Whole(v[k]))]
        decs == [k \in 1..Len(v) |-> Decimals(v[k])]
        wi == 1 + Widest(ints, Len(v))
        wd == Widest(decs, Len(v))
    IN  "[" \o Joined([k \in 1..Len(v) |->
                          Blanks(wi - Len(ints[k]) - Len(Sign(v[k])))
                          \o Sign(v[k]) \o ints[k] \o "."
                          \o decs[k] \o Blanks(wd - Len(decs[k]))], 1)
        \o "]"

(***************************************************************************)
(* The functions of the listings whose body is one return statement.       *)
(***************************************************************************)
\* (mutant) the sum in place of the product
squareAdds(x) == x + x

\* def square(x): return x * x
square(x) == x * x

\* (mutant) a tuple whose last entry is not the fifth prime
primes5WithNine == <<2, 3, 5, 7, 9>>

\* def primes5(): return (2, 3, 5, 7, 11)
primes5 == <<2, 3, 5, 7, 11>>

\* range(n)
Range(n) == [k \in 1..n |-> k - 1]

(***************************************************************************)
(* The program files, statement by statement.  jump is where control goes  *)
(* when it does not fall through to the next statement: past the body of a *)
(* def, past a block whose condition is false, out of or back into a loop. *)
(***************************************************************************)
St(op, arg, jump) == [op |-> op, arg |-> arg, jump |-> jump]

Module1Py ==
    << St("def", "someusefulfunction", 2),
       St("print_name", "", 0) >>

VectoolsPy ==
    << St("import", "division", 0),
       St("import", "math", 0),
       St("import", "N", 0),
       St("def", "norm", 5),
       St("def", "unitvector", 6),
       St("if_main", "", 10),
       St("assign_x1", "x1", 0),
       St("print_norm", "", 0),
       St("print_unit", "", 0) >>

SquarePy ==
    << St("def", "square", 2),
       St("for_i", "i", 5),
       St("assign_sq", "i_squared", 0),
       St("print_sq", "", 2) >>

Primes5LoopPy ==
    << St("def", "primes5", 2),
       St("for_p", "p", 4),
       St("print_p", "", 2) >>

Primes5GuardedPy ==
    << St("def", "primes5", 2),
       St("if_main", "", 5),
       St("for_p", "p", 5),
       St("print_p", "", 3) >>

Primes5MainPy ==
    << St("def", "primes5", 2),
       St("def", "main", 6),
       St("for_p", "p", 5),
       St("print_p", "", 3),
       St("return", "", 0),
       St("if_main", "", 8),
       St("call", "main", 0) >>

\* The modules, and the file each is kept in.  The three primes5 listings
\* have no file name in the text; they are named after what they show.
ModuleNames ==
    {"module1", "vectools", "square", "primes5_loop", "primes5_guarded",
     "primes5_main"}

FileOf(m) == m \o ".py"

ProgramFiles == {FileOf(m) : m \in ModuleNames}

\* The module's name: the file name without its .py suffix.
ModuleOf(file) == CHOOSE m \in ModuleNames : FileOf(m) = file

Program(file) ==
    CASE file = "module1.py" -> Module1Py
      [] file = "vectools.py" -> VectoolsPy
      [] file = "square.py" -> SquarePy
      [] file = "primes5_loop.py" -> Primes5LoopPy
      [] file = "primes5_guarded.py" -> Primes5GuardedPy
      [] file = "primes5_main.py" -> Primes5MainPy
      [] OTHER -> <<>>

(***************************************************************************)
(* One execution of a program file.                                        *)
(***************************************************************************)
MainName == "__main__"

\* (mutant) __name__ set to "__main__" for an import as well
NameOfAlwaysMain(file, mode) == MainName

\* __name__ inside the file: "__main__" when run, the module's name when
\* imported.
NameOf(file, mode) == IF mode = "run" THEN MainName ELSE ModuleOf(file)

NoFrame ==
    [file |-> "", mode |-> "", name |-> "", pc |-> 1, defs |-> {},
     i |-> 0, i_squared |-> 0, p |-> 0, x1 |-> <<>>, idx |-> 0, ret |-> 0,
     out |-> "", executed |-> <<>>, exc |-> NoError]

NewFrame(file, mode) ==
    [NoFrame EXCEPT !.file = file, !.mode = mode, !.name = NameOf(file, mode)]

Finished(f) == f.pc > Len(Program(f.file))

\* An exception nobody catches ends the execution.
Raise(f, e) == [f EXCEPT !.exc = e, !.pc = Len(Program(f.file)) + 1]

NameError(n) == "NameError: name '" \o n \o "' is not defined"

\* (mutant) the condition of the guard taken as true whatever __name__ is
IsMainAlways(f) == TRUE

\* if __name__ == "__main__":
IsMain(f) == f.name = MainName

\* (mutant) a def that does not bind the function's name
ExecDefBindsNothing(f, s) == [f EXCEPT !.pc = s.jump]

\* def name(...): binds the function's name and goes on after its body
ExecDef(f, s) == [f EXCEPT !.defs = @ \cup {s.arg}, !.pc = s.jump]

\* import math / import numpy as N / from __future__ import division
ExecImport(f, s) == [f EXCEPT !.defs = @ \cup {s.arg}, !.pc = @ + 1]

\* print("My name is", __name__)
ExecPrintName(f) ==
    [f EXCEPT !.out = @ \o "My name is " \o f.name \o "\n", !.pc = @ + 1]

ExecIfMain(f, s) == [f EXCEPT !.pc = IF IsMain(f) THEN @ + 1 ELSE s.jump]

\* for p in primes5():
ExecForP(f, s) ==
    IF "primes5" \notin f.defs THEN Raise(f, NameError("primes5"))
    ELSE IF f.idx < Len(primes5)
    THEN [f EXCEPT !.p = primes5[f.idx + 1],
                   \* p is a global of the file unless the loop is in main()
                   !.defs = IF f.ret = 0 THEN @ \cup {"p"} ELSE @,
                   !.idx = @ + 1, !.pc = @ + 1]
    ELSE [f EXCEPT !.idx = 0, !.pc = s.jump]

\* print("%d" % p, end=' ')
ExecPrintP(f, s) ==
    [f EXCEPT !.out = @ \o StrInt(f.p) \o " ", !.pc = s.jump]

\* for i in range(5):
ExecForI(f, s) ==
    IF f.idx < Len(Range(5))
    THEN [f EXCEPT !.i = Range(5)[f.idx + 1], !.defs = @ \cup {"i"},
                   !.idx = @ + 1, !.pc = @ + 1]
    ELSE [f EXCEPT !.idx = 0, !.pc = s.jump]

\* i_squared = square(i)
ExecAssignSq(f) ==
    IF "square" \notin f.defs THEN Raise(f, NameError("square"))
    ELSE [f EXCEPT !.i_squared = square(f.i), !.defs = @ \cup {"i_squared"},
                   !.pc = @ + 1]

\* print(i, '*', i, '=', i_squared)
ExecPrintSq(f, s) ==
    [f EXCEPT !.out = @ \o StrInt(f.i) \o " * " \o StrInt(f.i) \o " = "
                        \o StrInt(f.i_squared) \o "\n",
              !.pc = s.jump]

\* main(): control enters the body that follows the def of main
EntryOf(file, fn) ==
    1 + CHOOSE k \in 1..Len(Program(file)) :
            Program(file)[k].op = "def" /\ Program(file)[k].arg = fn

ExecCall(f, s) ==
    IF s.arg \notin f.defs THEN Raise(f, NameError(s.arg))
    ELSE [f EXCEPT !.ret = f.pc + 1, !.pc = EntryOf(f.file, s.arg)]

ExecReturn(f) == [f EXCEPT !.pc = f.ret, !.ret = 0]

\* x1 = N.array([0, 1, 2])
ExecAssignX1(f) ==
    IF "N" \notin f.defs THEN Raise(f, NameError("N"))
    ELSE [f EXCEPT !.x1 = <<FromInt(0), FromInt(1), FromInt(2)>>,
                   !.defs = @ \cup {"x1"}, !.pc = @ + 1]

\* print("The norm of " + str(x1) + " is " + str(norm(x1)) + ".")
ExecPrintNorm(f) ==
    IF "norm" \notin f.defs THEN Raise(f, NameError("norm"))
    ELSE LET r == norm(f.x1)
         IN  IF r.exc # NoError THEN Raise(f, r.exc)
             ELSE [f EXCEPT !.out = @ \o "The norm of " \o StrArray(f.x1)
                                      \o " is " \o StrFloat(r.val) \o ".\n",
                            !.pc = @ + 1]

\* print("The unitvector in direction of " + str(x1) + " is "
\*       + str(unitvector(x1)) + ".")
ExecPrintUnit(f) ==
    IF "unitvector" \notin f.defs THEN Raise(f, NameError("unitvector"))
    ELSE LET r == unitvector(f.x1)
         IN  IF r.exc # NoError THEN Raise(f, r.exc)
             ELSE [f EXCEPT !.out = @ \o "The unitvector in direction of "
                                      \o StrArray(f.x1) \o " is "
                                      \o StrFloatArray(r.val) \o ".\n",
                            !.pc = @ + 1]

\* The interpreter carries out the statement at pc.
StepFrame(f) ==
    LET s == Program(f.file)[f.pc]
        g == [f EXCEPT !.executed = Append(@, f.pc)]
    IN  CASE s.op = "def" -> ExecDef(g, s)
          [] s.op = "import" -> ExecImport(g, s)
          [] s.op = "print_name" -> ExecPrintName(g)
          [] s.op = "if_main" -> ExecIfMain(g, s)
          [] s.op = "for_p" -> ExecForP(g, s)
          [] s.op = "print_p" -> ExecPrintP(g, s)
          [] s.op = "for_i" -> ExecForI(g, s)
          [] s.op = "assign_sq" -> ExecAssignSq(g)
          [] s.op = "print_sq" -> ExecPrintSq(g, s)
          [] s.op = "call" -> ExecCall(g, s)
          [] s.op = "return" -> ExecReturn(g)
          [] s.op = "assign_x1" -> ExecAssignX1(g)
          [] s.op = "print_norm" -> ExecPrintNorm(g)
          [] s.op = "print_unit" -> ExecPrintUnit(g)

RECURSIVE RunToEnd(_)
\* the frame when the execution has ended
RunToEnd(f) == IF Finished(f) THEN f ELSE RunToEnd(StepFrame(f))

(***************************************************************************)
(* Running and importing the program files.                                *)
(***************************************************************************)
ModIdle ==
    /\ frame = NoFrame
    /\ status = "idle"
    /\ loaded = {}
    /\ bound = {}
    /\ modules = [m \in ModuleNames |-> {}]

\* python3 file.py
RunFile(file) ==
    /\ status # "running"
    /\ frame' = NewFrame(file, "run")
    /\ status' = "running"
    /\ UNCHANGED <<loaded, bound, modules, vecvars, nbvars, starvars>>

\* import file, the first time: the file is executed
ImportFile(m) ==
    /\ status # "running"
    /\ m \notin loaded
    /\ frame' = NewFrame(FileOf(m), "import")
    /\ status' = "running"
    /\ loaded' = loaded \cup {m}
    /\ UNCHANGED <<bound, modules, vecvars, nbvars, starvars>>

\* import file, again: the module object of sys.modules is bound, nothing runs
ImportLoaded(m) ==
    /\ status # "running"
    /\ m \in loaded
    /\ bound' = bound \cup {m}
    /\ UNCHANGED <<frame, status, loaded, modules, vecvars, nbvars, starvars>>

Step ==
    /\ status = "running"
    /\ ~Finished(frame)
    /\ frame' = StepFrame(frame)
    /\ modules' = IF frame.mode = "import"
                  THEN [modules EXCEPT ![frame.name] = StepFrame(frame).defs]
                  ELSE modules
    /\ UNCHANGED <<status, loaded, bound, vecvars, nbvars, starvars>>

\* The end of the file is reached: the process exits, or the import
\* statement binds the module in the importing namespace.
Finish ==
    /\ status = "running"
    /\ Finished(frame)
    /\ status' = "done"
    /\ IF frame.mode = "import"
       THEN IF frame.exc = NoError
            THEN /\ bound' = bound \cup {frame.name}
                 /\ modules' = [modules EXCEPT ![frame.name] = frame.defs]
                 /\ UNCHANGED loaded
            ELSE /\ loaded' = loaded \ {frame.name}
                 /\ modules' = [modules EXCEPT ![frame.name] = {}]
                 /\ UNCHANGED bound
       ELSE UNCHANGED <<loaded, bound, modules>>
    /\ UNCHANGED <<frame, vecvars, nbvars, starvars>>

(***************************************************************************)
(* The notebook kernel: one interactive session whose namespace the code   *)
(* cells share.  A cell is executed as a whole, in any order the user      *)
(* picks.  Values of the namespace are kept as text.                       *)
(***************************************************************************)
\* The public names of the library modules math and cmath (Python 3.11).
MathNames ==
    {"acos", "acosh", "asin", "asinh", "atan", "atan2", "atanh", "cbrt",
     "ceil", "comb", "copysign", "cos", "cosh", "degrees", "dist", "e", "erf",
     "erfc", "exp", "exp2", "expm1", "fabs", "factorial", "floor", "fmod",
     "frexp", "fsum", "gamma", "gcd", "hypot", "inf", "isclose", "isfinite",
     "isinf", "isnan", "isqrt", "lcm", "ldexp", "lgamma", "log", "log10",
     "log1p", "log2", "modf", "nan", "nextafter", "perm", "pi", "pow", "prod",
     "radians", "remainder", "sin", "sinh", "sqrt", "tan", "tanh", "tau",
     "trunc", "ulp"}

CmathNames ==
    {"acos", "acosh", "asin", "asinh", "atan", "atanh", "cos", "cosh", "e",
     "exp", "inf", "infj", "isclose", "isfinite", "isinf", "isnan", "log",
     "log10", "nan", "nanj", "phase", "pi", "polar", "rect", "sin", "sinh",
     "sqrt", "tan", "tanh", "tau"}

PublicNames(m) == IF m = "math" THEN MathNames ELSE CmathNames

\* the names the notebook's own statements bind
NotebookNames ==
    {"math", "x", "greeting", "printpluses", "square", "i", "i_squared",
     "hypot", "upperAndLower", "testword", "uppercase", "lowercase",
     "returnstars", "print_centred_in_stars", "cmath", "mathematics",
     "module1", "primes5", "p", "main"}

\* the names a code cell can bind
KernelNames == NotebookNames \cup MathNames

Unbound == ""
None == "None"
ModuleValue(m) == "<module '" \o m \o "'>"
AttrValue(m, n) == "<" \o m \o "." \o n \o ">"
FunctionValue(n) == "<function " \o n \o ">"

Bind(space, n, v) == [space EXCEPT ![n] = v]

\* import m as local  (import m is import m as m)
ImportAs(space, m, local) == Bind(space, local, ModuleValue(m))

\* (mutant) from m import ... binding the module's name as well
FromImportBindsModule(space, m, names) ==
    [n \in DOMAIN space |->
        IF n \in names THEN AttrValue(m, n)
        ELSE IF n = m THEN ModuleValue(m) ELSE space[n]]

\* from m import n1, n2, ...
FromImport(space, m, names) ==
    [n \in DOMAIN space |-> IF n \in names THEN AttrValue(m, n) ELSE space[n]]

\* from m import *
FromImportStar(space, m) == FromImport(space, m, PublicNames(m))

\* the globals a listing leaves behind, bound in the namespace
BindFrame(space, f) ==
    [n \in DOMAIN space |->
        IF n \notin f.defs THEN space[n]
        ELSE IF n = "i" THEN StrInt(f.i)
        ELSE IF n = "i_squared" THEN StrInt(f.i_squared)
        ELSE IF n = "p" THEN StrInt(f.p)
        ELSE FunctionValue(n)]

(***************************************************************************)
(* A call of a function defined by def: the statements of its body are     *)
(* carried out; a return statement ends the call with its value, and the   *)
(* end of the body ends it with None.                                      *)
(***************************************************************************)
\* def greeting(): print("Hello World!")
GreetingBody == << [op |-> "print", text |-> "Hello World!"] >>

RECURSIVE RunBody(_, _, _)
RunBody(body, k, printed) ==
    IF k > Len(body) THEN [out |-> printed, ret |-> None]
    ELSE IF body[k].op = "return" THEN [out |-> printed, ret |-> body[k].text]
    ELSE RunBody(body, k + 1, printed \o body[k].text \o "\n")

\* (mutant) a call that hands back what the body printed
CallReturnsPrinted(body) ==
    [out |-> RunBody(body, 1, "").out, ret |-> RunBody(body, 1, "").out]

CallFunction(body) == RunBody(body, 1, "")

RECURSIVE Repeated(_, _)
\* n * c for a string c
Repeated(n, c) == IF n <= 0 THEN "" ELSE c \o Repeated(n - 1, c)

\* def returnstars(n): return n * '*'
returnstarsOneMore(n) == Repeated(n + 1, "*")

returnstars(n) == Repeated(n, "*")

\* def print_centred_in_stars(string): what it prints
print_centred_in_stars(string) ==
    LET linelength == 46
        starstring == returnstars((linelength - Len(string)) \div 2)
    IN  starstring \o string \o starstring \o "\n"

\* str.upper and str.lower on the letters of the test word
\* Strings are sequences of code points.  CaseTable lists every character
\* that str.upper or str.lower changes (Python 3.11, Unicode 14) as
\* <<character, its upper case, its lower case>>; a mapping may give more
\* than one character.  Every other character is left as it is.
CaseTable ==
    << <<65, <<65>>, <<97>>>>, <<66, <<66>>, <<98>>>>,
       <<67, <<67>>, <<99>>>>, <<68, <<68>>, <<100>>>>,
       <<69, <<69>>, <<101>>>>, <<70, <<70>>, <<102>>>>,
       <<71, <<71>>, <<103>>>>, <<72, <<72>>, <<104>>>>,
       <<73, <<73>>, <<105>>>>, <<74, <<74>>, <<106>>>>,
       <<75, <<75>>, <<107>>>>, <<76, <<76>>, <<108>>>>,
       <<77, <<77>>, <<109>>>>, <<78, <<78>>, <<110>>>>,
       <<79, <<79>>, <<111>>>>, <<80, <<80>>, <<112>>>>,
       <<81, <<81>>, <<113>>>>, <<82, <<82>>, <<114>>>>,
       <<83, <<83>>, <<115>>>>, <<84, <<84>>, <<116>>>>,
       <<85, <<85>>, <<117>>>>, <<86, <<86>>, <<118>>>>,
       <<87, <<87>>, <<119>>>>, <<88, <<88>>, <<120>>>>,
       <<89, <<89>>, <<121>>>>, <<90, <<90>>, <<122>>>>,
       <<97, <<65>>, <<97>>>>, <<98, <<66>>, <<98>>>>,
       <<99, <<67>>, <<99>>>>, <<100, <<68>>, <<100>>>>,
       <<101, <<69>>, <<101>>>>, <<102, <<70>>, <<102>>>>,
       <<103, <<71>>, <<103>>>>, <<104, <<72>>, <<104>>>>,
       <<105, <<73>>, <<105>>>>, <<106, <<74>>, <<106>>>>,
       <<107, <<75>>, <<107>>>>, <<108, <<76>>, <<108>>>>,
       <<109, <<77>>, <<109>>>>, <<110, <<78>>, <<110>>>>,
       <<111, <<79>>, <<111>>>>, <<112, <<80>>, <<112>>>>,
       <<113, <<81>>, <<113>>>>, <<114, <<82>>, <<114>>>>,
       <<115, <<83>>, <<115>>>>, <<116, <<84>>, <<116>>>>,
       <<117, <<85>>, <<117>>>>, <<118, <<86>>, <<118>>>>,
       <<119, <<87>>, <<119>>>>, <<120, <<88>>, <<120>>>>,
       <<121, <<89>>, <<121>>>>, <<122, <<90>>, <<122>>>>,
       <<181, <<924>>, <<181>>>>, <<192, <<192>>, <<224>>>>,
       <<193, <<193>>, <<225>>>>, <<194, <<194>>, <<226>>>>,
       <<195, <<195>>, <<227>>>>, <<196, <<196>>, <<228>>>>,
       <<197, <<197>>, <<229>>>>, <<198, <<198>>, <<230>>>>,
       <<199, <<199>>, <<231>>>>, <<200, <<200>>, <<232>>>>,
       <<201, <<201>>, <<233>>>>, <<202, <<202>>, <<234>>>>,
       <<203, <<203>>, <<235>>>>, <<204, <<204>>, <<236>>>>,
       <<205, <<205>>, <<237>>>>, <<206, <<206>>, <<238>>>>,
       <<207, <<207>>, <<239>>>>, <<208, <<208>>, <<240>>>>,
       <<209, <<209>>, <<241>>>>, <<210, <<210>>, <<242>>>>,
       <<211, <<211>>, <<243>>>>, <<212, <<212>>, <<244>>>>,
       <<213, <<213>>, <<245>>>>, <<214, <<214>>, <<246>>>>,
       <<216, <<216>>, <<248>>>>, <<217, <<217>>, <<249>>>>,
       <<218, <<218>>, <<250>>>>, <<219, <<219>>, <<251>>>>,
       <<220, <<220>>, <<252>>>>, <<221, <<221>>, <<253>>>>,
       <<222, <<222>>, <<254>>>>, <<223, <<83, 83>>, <<223>>>>,
       <<224, <<192>>, <<224>>>>, <<225, <<193>>, <<225>>>>,
       <<226, <<194>>, <<226>>>>, <<227, <<195>>, <<227>>>>,
       <<228, <<196>>, <<228>>>>, <<229, <<197>>, <<229>>>>,
       <<230, <<198>>, <<230>>>>, <<231, <<199>>, <<231>>>>,
       <<232, <<200>>, <<232>>>>, <<233, <<201>>, <<233>>>>,
       <<234, <<202>>, <<234>>>>, <<235, <<203>>, <<235>>>>,
       <<236, <<204>>, <<236>>>>, <<237, <<205>>, <<237>>>>,
       <<238, <<206>>, <<238>>>>, <<239, <<207>>, <<239>>>>,
       <<240, <<208>>, <<240>>>>, <<241, <<209>>, <<241>>>>,
       <<242, <<210>>, <<242>>>>, <<243, <<211>>, <<243>>>>,
       <<244, <<212>>, <<244>>>>, <<245, <<213>>, <<245>>>>,
       <<246, <<214>>, <<246>>>>, <<248, <<216>>, <<248>>>>,
       <<249, <<217>>, <<249>>>>, <<250, <<218>>, <<250>>>>,
       <<251, <<219>>, <<251>>>>, <<252, <<220>>, <<252>>>>,
       <<253, <<221>>, <<253>>>>, <<254, <<222>>, <<254>>>>,
       <<255, <<376>>, <<255>>>>, <<256, <<256>>, <<257>>>>,
       <<257, <<256>>, <<257>>>>, <<258, <<258>>, <<259>>>>,
       <<259, <<258>>, <<259>>>>, <<260, <<260>>, <<261>>>>,
       <<261, <<260>>, <<261>>>>, <<262, <<262>>, <<263>>>>,
       <<263, <<262>>, <<263>>>>, <<264, <<264>>, <<265>>>>,
       <<265, <<264>>, <<265>>>>, <<266, <<266>>, <<267>>>>,
       <<267, <<266>>, <<267>>>>, <<268, <<268>>, <<269>>>>,
       <<269, <<268>>, <<269>>>>, <<270, <<270>>, <<271>>>>,
       <<271, <<270>>, <<271>>>>, <<272, <<272>>, <<273>>>>,
       <<273, <<272>>, <<273>>>>, <<274, <<274>>, <<275>>>>,
       <<275, <<274>>, <<275>>>>, <<276, <<276>>, <<277>>>>,
       <<277, <<276>>, <<277>>>>, <<278, <<278>>, <<279>>>>,
       <<279, <<278>>, <<279>>>>, <<280, <<280>>, <<281>>>>,
       <<281, <<280>>, <<281>>>>, <<282, <<282>>, <<283>>>>,
       <<283, <<282>>, <<283>>>>, <<284, <<284>>, <<285>>>>,
       <<285, <<284>>, <<285>>>>, <<286, <<286>>, <<287>>>>,
       <<287, <<286>>, <<287>>>>, <<288, <<288>>, <<289>>>>,
       <<289, <<288>>, <<289>>>>, <<290, <<290>>, <<291>>>>,
       <<291, <<290>>, <<291>>>>, <<292, <<292>>, <<293>>>>,
       <<293, <<292>>, <<293>>>>, <<294, <<294>>, <<295>>>>,
       <<295, <<294>>, <<295>>>>, <<296, <<296>>, <<297>>>>,
       <<297, <<296>>, <<297>>>>, <<298, <<298>>, <<299>>>>,
       <<299, <<298>>, <<299>>>>, <<300, <<300>>, <<301>>>>,
       <<301, <<300>>, <<301>>>>, <<302, <<302>>, <<303>>>>,
       <<303, <<302>>, <<303>>>>, <<304, <<304>>, <<105, 775>>>>,
       <<305, <<73>>, <<305>>>>, <<306, <<306>>, <<307>>>>,
       <<307, <<306>>, <<307>>>>, <<308, <<308>>, <<309>>>>,
       <<309, <<308>>, <<309>>>>, <<310, <<310>>, <<311>>>>,
       <<311, <<310>>, <<311>>>>, <<313, <<313>>, <<314>>>>,
       <<314, <<313>>, <<314>>>>, <<315, <<315>>, <<316>>>>,
       <<316, <<315>>, <<316>>>>, <<317, <<317>>, <<318>>>>,
       <<318, <<317>>, <<318>>>>, <<319, <<319>>, <<320>>>>,
       <<320, <<319>>, <<320>>>>, <<321, <<321>>, <<322>>>>,
       <<322, <<321>>, <<322>>>>, <<323, <<323>>, <<324>>>>,
       <<324, <<323>>, <<324>>>>, <<325, <<325>>, <<326>>>>,
       <<326, <<325>>, <<326>>>>, <<327, <<327>>, <<328>>>>,
       <<328, <<327>>, <<328>>>>, <<329, <<700, 78>>, <<329>>>>,
       <<330, <<330>>, <<331>>>>, <<331, <<330>>, <<331>>>>,
       <<332, <<332>>, <<333>>>>, <<333, <<332>>, <<333>>>>,
       <<334, <<334>>, <<335>>>>, <<335, <<334>>, <<335>>>>,
       <<336, <<336>>, <<337>>>>, <<337, <<336>>, <<337>>>>,
       <<338, <<338>>, <<339>>>>, <<339, <<338>>, <<339>>>>,
       <<340, <<340>>, <<341>>>>, <<341, <<340>>, <<341>>>>,
       <<342, <<342>>, <<343>>>>, <<343, <<342>>, <<343>>>>,
       <<344, <<344>>, <<345>>>>, <<345, <<344>>, <<345>>>>,
       <<346, <<346>>, <<347>>>>, <<347, <<346>>, <<347>>>>,
       <<348, <<348>>, <<349>>>>, <<349, <<348>>, <<349>>>>,
       <<350, <<350>>, <<351>>>>, <<351, <<350>>, <<351>>>>,
       <<352, <<352>>, <<353>>>>, <<353, <<352>>, <<353>>>>,
       <<354, <<354>>, <<355>>>>, <<355, <<354>>, <<355>>>>,
       <<356, <<356>>, <<357>>>>, <<357, <<356>>, <<357>>>>,
       <<358, <<358>>, <<359>>>>, <<359, <<358>>, <<359>>>>,
       <<360, <<360>>, <<361>>>>, <<361, <<360>>, <<361>>>>,
       <<362, <<362>>, <<363>>>>, <<363, <<362>>, <<363>>>>,
       <<364, <<364>>, <<365>>>>, <<365, <<364>>, <<365>>>>,
       <<366, <<366>>, <<367>>>>, <<367, <<366>>, <<367>>>>,
       <<368, <<368>>, <<369>>>>, <<369, <<368>>, <<369>>>>,
       <<370, <<370>>, <<371>>>>, <<371, <<370>>, <<371>>>>,
       <<372, <<372>>, <<373>>>>, <<373, <<372>>, <<373>>>>,
       <<374, <<374>>, <<375>>>>, <<375, <<374>>, <<375>>>>,
       <<376, <<376>>, <<255>>>>, <<377, <<377>>, <<378>>>>,
       <<378, <<377>>, <<378>>>>, <<379, <<379>>, <<380>>>>,
       <<380, <<379>>, <<380>>>>, <<381, <<381>>, <<382>>>>,
       <<382, <<381>>, <<382>>>>, <<383, <<83>>, <<383>>>>,
       <<384, <<579>>, <<384>>>>, <<385, <<385>>, <<595>>>>,
       <<386, <<386>>, <<387>>>>, <<387, <<386>>, <<387>>>>,
       <<388, <<388>>, <<389>>>>, <<389, <<388>>, <<389>>>>,
       <<390, <<390>>, <<596>>>>, <<391, <<391>>, <<392>>>>,
       <<392, <<391>>, <<392>>>>, <<393, <<393>>, <<598>>>>,
       <<394, <<394>>, <<599>>>>, <<395, <<395>>, <<396>>>>,
       <<396, <<395>>, <<396>>>>, <<398, <<398>>, <<477>>>>,
       <<399, <<399>>, <<601>>>>, <<400, <<400>>, <<603>>>>,
       <<401, <<401>>, <<402>>>>, <<402, <<401>>, <<402>>>>,
       <<403, <<403>>, <<608>>>>, <<404, <<404>>, <<611>>>>,
       <<405, <<502>>, <<405>>>>, <<406, <<406>>, <<617>>>>,
       <<407, <<407>>, <<616>>>>, <<408, <<408>>, <<409>>>>,
       <<409, <<408>>, <<409>>>>, <<410, <<573>>, <<410>>>>,
       <<412, <<412>>, <<623>>>>, <<413, <<413>>, <<626>>>>,
       <<414, <<544>>, <<414>>>>, <<415, <<415>>, <<629>>>>,
       <<416, <<416>>, <<417>>>>, <<417, <<416>>, <<417>>>>,
       <<418, <<418>>, <<419>>>>, <<419, <<418>>, <<419>>>>,
       <<420, <<420>>, <<421>>>>, <<421, <<420>>, <<421>>>>,
       <<422, <<422>>, <<640>>>>, <<423, <<423>>, <<424>>>>,
       <<424, <<423>>, <<424>>>>, <<425, <<425>>, <<643>>>>,
       <<428, <<428>>, <<429>>>>, <<429, <<428>>, <<429>>>>,
       <<430, <<430>>, <<648>>>>, <<431, <<431>>, <<432>>>>,
       <<432, <<431>>, <<432>>>>, <<433, <<433>>, <<650>>>>,
       <<434, <<434>>, <<651>>>>, <<435, <<435>>, <<436>>>>,
       <<436, <<435>>, <<436>>>>, <<437, <<437>>, <<438>>>>,
       <<438, <<437>>, <<438>>>>, <<439, <<439>>, <<658>>>>,
       <<440, <<440>>, <<441>>>>, <<441, <<440>>, <<441>>>>,
       <<444, <<444>>, <<445>>>>, <<445, <<444>>, <<445>>>>,
       <<447, <<503>>, <<447>>>>, <<452, <<452>>, <<454>>>>,
       <<453, <<452>>, <<454>>>>, <<454, <<452>>, <<454>>>>,
       <<455, <<455>>, <<457>>>>, <<456, <<455>>, <<457>>>>,
       <<457, <<455>>, <<457>>>>, <<458, <<458>>, <<460>>>>,
       <<459, <<458>>, <<460>>>>, <<460, <<458>>, <<460>>>>,
       <<461, <<461>>, <<462>>>>, <<462, <<461>>, <<462>>>>,
       <<463, <<463>>, <<464>>>>, <<464, <<463>>, <<464>>>>,
       <<465, <<465>>, <<466>>>>, <<466, <<465>>, <<466>>>>,
       <<467, <<467>>, <<468>>>>, <<468, <<467>>, <<468>>>>,
       <<469, <<469>>, <<470>>>>, <<470, <<469>>, <<470>>>>,
       <<471, <<471>>, <<472>>>>, <<472, <<471>>, <<472>>>>,
       <<473, <<473>>, <<474>>>>, <<474, <<473>>, <<474>>>>,
       <<475, <<475>>, <<476>>>>, <<476, <<475>>, <<476>>>>,
       <<477, <<398>>, <<477>>>>, <<478, <<478>>, <<479>>>>,
       <<479, <<478>>, <<479>>>>, <<480, <<480>>, <<481>>>>,
       <<481, <<480>>, <<481>>>>, <<482, <<482>>, <<483>>>>,
       <<483, <<482>>, <<483>>>>, <<484, <<484>>, <<485>>>>,
       <<485, <<484>>, <<485>>>>, <<486, <<486>>, <<487>>>>,
       <<487, <<486>>, <<487>>>>, <<488, <<488>>, <<489>>>>,
       <<489, <<488>>, <<489>>>>, <<490, <<490>>, <<491>>>>,
       <<491, <<490>>, <<491>>>>, <<492, <<492>>, <<493>>>>,
       <<493, <<492>>, <<493>>>>, <<494, <<494>>, <<495>>>>,
       <<495, <<494>>, <<495>>>>, <<496, <<74, 780>>, <<496>>>>,
       <<497, <<497>>, <<499>>>>, <<498, <<497>>, <<499>>>>,
       <<499, <<497>>, <<499>>>>, <<500, <<500>>, <<501>>>>,
       <<501, <<500>>, <<501>>>>, <<502, <<502>>, <<405>>>>,
       <<503, <<503>>, <<447>>>>, <<504, <<504>>, <<505>>>>,
       <<505, <<504>>, <<505>>>>, <<506, <<506>>, <<507>>>>,
       <<507, <<506>>, <<507>>>>, <<508, <<508>>, <<509>>>>,
       <<509, <<508>>, <<509>>>>, <<510, <<510>>, <<511>>>>,
       <<511, <<510>>, <<511>>>>, <<512, <<512>>, <<513>>>>,
       <<513, <<512>>, <<513>>>>, <<514, <<514>>, <<515>>>>,
       <<515, <<514>>, <<515>>>>, <<516, <<516>>, <<517>>>>,
       <<517, <<516>>, <<517>>>>, <<518, <<518>>, <<519>>>>,
       <<519, <<518>>, <<519>>>>, <<520, <<520>>, <<521>>>>,
       <<521, <<520>>, <<521>>>>, <<522, <<522>>, <<523>>>>,
       <<523, <<522>>, <<523>>>>, <<524, <<524>>, <<525>>>>,
       <<525, <<524>>, <<525>>>>, <<526, <<526>>, <<527>>>>,
       <<527, <<526>>, <<527>>>>, <<528, <<528>>, <<529>>>>,
       <<529, <<528>>, <<529>>>>, <<530, <<530>>, <<531>>>>,
       <<531, <<530>>, <<531>>>>, <<532, <<532>>, <<533>>>>,
       <<533, <<532>>, <<533>>>>, <<534, <<534>>, <<535>>>>,
       <<535, <<534>>, <<535>>>>, <<536, <<536>>, <<537>>>>,
       <<537, <<536>>, <<537>>>>, <<538, <<538>>, <<539>>>>,
       <<539, <<538>>, <<539>>>>, <<540, <<540>>, <<541>>>>,
       <<541, <<540>>, <<541>>>>, <<542, <<542>>, <<543>>>>,
       <<543, <<542>>, <<543>>>>, <<544, <<544>>, <<414>>>>,
       <<546, <<546>>, <<547>>>>, <<547, <<546>>, <<547>>>>,
       <<548, <<548>>, <<549>>>>, <<549, <<548>>, <<549>>>>,
       <<550, <<550>>, <<551>>>>, <<551, <<550>>, <<551>>>>,
       <<552, <<552>>, <<553>>>>, <<553, <<552>>, <<553>>>>,
       <<554, <<554>>, <<555>>>>, <<555, <<554>>, <<555>>>>,
       <<556, <<556>>, <<557>>>>, <<557, <<556>>, <<557>>>>,
       <<558, <<558>>, <<559>>>>, <<559, <<558>>, <<559>>>>,
       <<560, <<560>>, <<561>>>>, <<561, <<560>>, <<561>>>>,
       <<562, <<562>>, <<563>>>>, <<563, <<562>>, <<563>>>>,
       <<570, <<570>>, <<11365>>>>, <<571, <<571>>, <<572>>>>,
       <<572, <<571>>, <<572>>>>, <<573, <<573>>, <<410>>>>,
       <<574, <<574>>, <<11366>>>>, <<575, <<11390>>, <<575>>>>,
       <<576, <<11391>>, <<576>>>>, <<577, <<577>>, <<578>>>>,
       <<578, <<577>>, <<578>>>>, <<579, <<579>>, <<384>>>>,
       <<580, <<580>>, <<649>>>>, <<581, <<581>>, <<652>>>>,
       <<582, <<582>>, <<583>>>>, <<583, <<582>>, <<583>>>>,
       <<584, <<584>>, <<585>>>>, <<585, <<584>>, <<585>>>>,
       <<586, <<586>>, <<587>>>>, <<587, <<586>>, <<587>>>>,
       <<588, <<588>>, <<589>>>>, <<589, <<588>>, <<589>>>>,
       <<590, <<590>>, <<591>>>>, <<591, <<590>>, <<591>>>>,
       <<592, <<11375>>, <<592>>>>, <<593, <<11373>>, <<593>>>>,
       <<594, <<11376>>, <<594>>>>, <<595, <<385>>, <<595>>>>,
       <<596, <<390>>, <<596>>>>, <<598, <<393>>, <<598>>>>,
       <<599, <<394>>, <<599>>>>, <<601, <<399>>, <<601>>>>,
       <<603, <<400>>, <<603>>>>, <<604, <<42923>>, <<604>>>>,
       <<608, <<403>>, <<608>>>>, <<609, <<42924>>, <<609>>>>,
       <<611, <<404>>, <<611>>>>, <<613, <<42893>>, <<613>>>>,
       <<614, <<42922>>, <<614>>>>, <<616, <<407>>, <<616>>>>,
       <<617, <<406>>, <<617>>>>, <<618, <<42926>>, <<618>>>>,
       <<619, <<11362>>, <<619>>>>, <<620, <<42925>>, <<620>>>>,
       <<623, <<412>>, <<623>>>>, <<625, <<11374>>, <<625>>>>,
       <<626, <<413>>, <<626>>>>, <<629, <<415>>, <<629>>>>,
       <<637, <<11364>>, <<637>>>>, <<640, <<422>>, <<640>>>>,
       <<642, <<42949>>, <<642>>>>, <<643, <<425>>, <<643>>>>,
       <<647, <<42929>>, <<647>>>>, <<648, <<430>>, <<648>>>>,
       <<649, <<580>>, <<649>>>>, <<650, <<433>>, <<650>>>>,
       <<651, <<434>>, <<651>>>>, <<652, <<581>>, <<652>>>>,
       <<658, <<439>>, <<658>>>>, <<669, <<42930>>, <<669>>>>,
       <<670, <<42928>>, <<670>>>>, <<837, <<921>>, <<837>>>>,
       <<880, <<880>>, <<881>>>>, <<881, <<880>>, <<881>>>>,
       <<882, <<882>>, <<883>>>>, <<883, <<882>>, <<883>>>>,
       <<886, <<886>>, <<887>>>>, <<887, <<886>>, <<887>>>>,
       <<891, <<1021>>, <<891>>>>, <<892, <<1022>>, <<892>>>>,
       <<893, <<1023>>, <<893>>>>, <<895, <<895>>, <<1011>>>>,
       <<902, <<902>>, <<940>>>>, <<904, <<904>>, <<941>>>>,
       <<905, <<905>>, <<942>>>>, <<906, <<906>>, <<943>>>>,
       <<908, <<908>>, <<972>>>>, <<910, <<910>>, <<973>>>>,
       <<911, <<911>>, <<974>>>>, <<912, <<921, 776, 769>>, <<912>>>>,
       <<913, <<913>>, <<945>>>>, <<914, <<914>>, <<946>>>>,
       <<915, <<915>>, <<947>>>>, <<916, <<916>>, <<948>>>>,
       <<917, <<917>>, <<949>>>>, <<918, <<918>>, <<950>>>>,
       <<919, <<919>>, <<951>>>>, <<920, <<920>>, <<952>>>>,
       <<921, <<921>>, <<953>>>>, <<922, <<922>>, <<954>>>>,
       <<923, <<923>>, <<955>>>>, <<924, <<924>>, <<956>>>>,
       <<925, <<925>>, <<957>>>>, <<926, <<926>>, <<958>>>>,
       <<927, <<927>>, <<959>>>>, <<928, <<928>>, <<960>>>>,
       <<929, <<929>>, <<961>>>>, <<931, <<931>>, <<963>>>>,
       <<932, <<932>>, <<964>>>>, <<933, <<933>>, <<965>>>>,
       <<934, <<934>>, <<966>>>>, <<935, <<935>>, <<967>>>>,
       <<936, <<936>>, <<968>>>>, <<937, <<937>>, <<969>>>>,
       <<938, <<938>>, <<970>>>>, <<939, <<939>>, <<971>>>>,
       <<940, <<902>>, <<940>>>>, <<941, <<904>>, <<941>>>>,
       <<942, <<905>>, <<942>>>>, <<943, <<906>>, <<943>>>>,
       <<944, <<933, 776, 769>>, <<944>>>>, <<945, <<913>>, <<945>>>>,
       <<946, <<914>>, <<946>>>>, <<947, <<915>>, <<947>>>>,
       <<948, <<916>>, <<948>>>>, <<949, <<917>>, <<949>>>>,
       <<950, <<918>>, <<950>>>>, <<951, <<919>>, <<951>>>>,
       <<952, <<920>>, <<952>>>>, <<953, <<921>>, <<953>>>>,
       <<954, <<922>>, <<954>>>>, <<955, <<923>>, <<955>>>>,
       <<956, <<924>>, <<956>>>>, <<957, <<925>>, <<957>>>>,
       <<958, <<926>>, <<958>>>>, <<959, <<927>>, <<959>>>>,
       <<960, <<928>>, <<960>>>>, <<961, <<929>>, <<961>>>>,
       <<962, <<931>>, <<962>>>>, <<963, <<931>>, <<963>>>>,
       <<964, <<932>>, <<964>>>>, <<965, <<933>>, <<965>>>>,
       <<966, <<934>>, <<966>>>>, <<967, <<935>>, <<967>>>>,
       <<968, <<936>>, <<968>>>>, <<969, <<937>>, <<969>>>>,
       <<970, <<938>>, <<970>>>>, <<971, <<939>>, <<971>>>>,
       <<972, <<908>>, <<972>>>>, <<973, <<910>>, <<973>>>>,
       <<974, <<911>>, <<974>>>>, <<975, <<975>>, <<983>>>>,
       <<976, <<914>>, <<976>>>>, <<977, <<920>>, <<977>>>>,
       <<981, <<934>>, <<981>>>>, <<982, <<928>>, <<982>>>>,
       <<983, <<975>>, <<983>>>>, <<984, <<984>>, <<985>>>>,
       <<985, <<984>>, <<985>>>>, <<986, <<986>>, <<987>>>>,
       <<987, <<986>>, <<987>>>>, <<988, <<988>>, <<989>>>>,
       <<989, <<988>>, <<989>>>>, <<990, <<990>>, <<991>>>>,
       <<991, <<990>>, <<991>>>>, <<992, <<992>>, <<993>>>>,
       <<993, <<992>>, <<993>>>>, <<994, <<994>>, <<995>>>>,
       <<995, <<994>>, <<995>>>>, <<996, <<996>>, <<997>>>>,
       <<997, <<996>>, <<997>>>>, <<998, <<998>>, <<999>>>>,
       <<999, <<998>>, <<999>>>>, <<1000, <<1000>>, <<1001>>>>,
       <<1001, <<1000>>, <<1001>>>>, <<1002, <<1002>>, <<1003>>>>,
       <<1003, <<1002>>, <<1003>>>>, <<1004, <<1004>>, <<1005>>>>,
       <<1005, <<1004>>, <<1005>>>>, <<1006, <<1006>>, <<1007>>>>,
       <<1007, <<1006>>, <<1007>>>>, <<1008, <<922>>, <<1008>>>>,
       <<1009, <<929>>, <<1009>>>>, <<1010, <<1017>>, <<1010>>>>,
       <<1011, <<895>>, <<1011>>>>, <<1012, <<1012>>, <<952>>>>,
       <<1013, <<917>>, <<1013>>>>, <<1015, <<1015>>, <<1016>>>>,
       <<1016, <<1015>>, <<1016>>>>, <<1017, <<1017>>, <<1010>>>>,
       <<1018, <<1018>>, <<1019>>>>, <<1019, <<1018>>, <<1019>>>>,
       <<1021, <<1021>>, <<891>>>>, <<1022, <<1022>>, <<892>>>>,
       <<1023, <<1023>>, <<893>>>>, <<1024, <<1024>>, <<1104>>>>,
       <<1025, <<1025>>, <<1105>>>>, <<1026, <<1026>>, <<1106>>>>,
       <<1027, <<1027>>, <<1107>>>>, <<1028, <<1028>>, <<1108>>>>,
       <<1029, <<1029>>, <<1109>>>>, <<1030, <<1030>>, <<1110>>>>,
       <<1031, <<1031>>, <<1111>>>>, <<1032, <<1032>>, <<1112>>>>,
       <<1033, <<1033>>, <<1113>>>>, <<1034, <<1034>>, <<1114>>>>,
       <<1035, <<1035>>, <<1115>>>>, <<1036, <<1036>>, <<1116>>>>,
       <<1037, <<1037>>, <<1117>>>>, <<1038, <<1038>>, <<1118>>>>,
       <<1039, <<1039>>, <<1119>>>>, <<1040, <<1040>>, <<1072>>>>,
       <<1041, <<1041>>, <<1073>>>>, <<1042, <<1042>>, <<1074>>>>,
       <<1043, <<1043>>, <<1075>>>>, <<1044, <<1044>>, <<1076>>>>,
       <<1045, <<1045>>, <<1077>>>>, <<1046, <<1046>>, <<1078>>>>,
       <<1047, <<1047>>, <<1079>>>>, <<1048, <<1048>>, <<1080>>>>,
       <<1049, <<1049>>, <<1081>>>>, <<1050, <<1050>>, <<1082>>>>,
       <<1051, <<1051>>, <<1083>>>>, <<1052, <<1052>>, <<1084>>>>,
       <<1053, <<1053>>, <<1085>>>>, <<1054, <<1054>>, <<1086>>>>,
       <<1055, <<1055>>, <<1087>>>>, <<1056, <<1056>>, <<1088>>>>,
       <<1057, <<1057>>, <<1089>>>>, <<1058, <<1058>>, <<1090>>>>,
       <<1059, <<1059>>, <<1091>>>>, <<1060, <<1060>>, <<1092>>>>,
       <<1061, <<1061>>, <<1093>>>>, <<1062, <<1062>>, <<1094>>>>,
       <<1063, <<1063>>, <<1095>>>>, <<1064, <<1064>>, <<1096>>>>,
       <<1065, <<1065>>, <<1097>>>>, <<1066, <<1066>>, <<1098>>>>,
       <<1067, <<1067>>, <<1099>>>>, <<1068, <<1068>>, <<1100>>>>,
       <<1069, <<1069>>, <<1101>>>>, <<1070, <<1070>>, <<1102>>>>,
       <<1071, <<1071>>, <<1103>>>>, <<1072, <<1040>>, <<1072>>>>,
       <<1073, <<1041>>, <<1073>>>>, <<1074, <<1042>>, <<1074>>>>,
       <<1075, <<1043>>, <<1075>>>>, <<1076, <<1044>>, <<1076>>>>,
       <<1077, <<1045>>, <<1077>>>>, <<1078, <<1046>>, <<1078>>>>,
       <<1079, <<1047>>, <<1079>>>>, <<1080, <<1048>>, <<1080>>>>,
       <<1081, <<1049>>, <<1081>>>>, <<1082, <<1050>>, <<1082>>>>,
       <<1083, <<1051>>, <<1083>>>>, <<1084, <<1052>>, <<1084>>>>,
       <<1085, <<1053>>, <<1085>>>>, <<1086, <<1054>>, <<1086>>>>,
       <<1087, <<1055>>, <<1087>>>>, <<1088, <<1056>>, <<1088>>>>,
       <<1089, <<1057>>, <<1089>>>>, <<1090, <<1058>>, <<1090>>>>,
       <<1091, <<1059>>, <<1091>>>>, <<1092, <<1060>>, <<1092>>>>,
       <<1093, <<1061>>, <<1093>>>>, <<1094, <<1062>>, <<1094>>>>,
       <<1095, <<1063>>, <<1095>>>>, <<1096, <<1064>>, <<1096>>>>,
       <<1097, <<1065>>, <<1097>>>>, <<1098, <<1066>>, <<1098>>>>,
       <<1099, <<1067>>, <<1099>>>>, <<1100, <<1068>>, <<1100>>>>,
       <<1101, <<1069>>, <<1101>>>>, <<1102, <<1070>>, <<1102>>>>,
       <<1103, <<1071>>, <<1103>>>>, <<1104, <<1024>>, <<1104>>>>,
       <<1105, <<1025>>, <<1105>>>>, <<1106, <<1026>>, <<1106>>>>,
       <<1107, <<1027>>, <<1107>>>>, <<1108, <<1028>>, <<1108>>>>,
       <<1109, <<1029>>, <<1109>>>>, <<1110, <<1030>>, <<1110>>>>,
       <<1111, <<1031>>, <<1111>>>>, <<1112, <<1032>>, <<1112>>>>,
       <<1113, <<1033>>, <<1113>>>>, <<1114, <<1034>>, <<1114>>>>,
       <<1115, <<1035>>, <<1115>>>>, <<1116, <<1036>>, <<1116>>>>,
       <<1117, <<1037>>, <<1117>>>>, <<1118, <<1038>>, <<1118>>>>,
       <<1119, <<1039>>, <<1119>>>>, <<1120, <<1120>>, <<1121>>>>,
       <<1121, <<1120>>, <<1121>>>>, <<1122, <<1122>>, <<1123>>>>,
       <<1123, <<1122>>, <<1123>>>>, <<1124, <<1124>>, <<1125>>>>,
       <<1125, <<1124>>, <<1125>>>>, <<1126, <<1126>>, <<1127>>>>,
       <<1127, <<1126>>, <<1127>>>>, <<1128, <<1128>>, <<1129>>>>,
       <<1129, <<1128>>, <<1129>>>>, <<1130, <<1130>>, <<1131>>>>,
       <<1131, <<1130>>, <<1131>>>>, <<1132, <<1132>>, <<1133>>>>,
       <<1133, <<1132>>, <<1133>>>>, <<1134, <<1134>>, <<1135>>>>,
       <<1135, <<1134>>, <<1135>>>>, <<1136, <<1136>>, <<1137>>>>,
       <<1137, <<1136>>, <<1137>>>>, <<1138, <<1138>>, <<1139>>>>,
       <<1139, <<1138>>, <<1139>>>>, <<1140, <<1140>>, <<1141>>>>,
       <<1141, <<1140>>, <<1141>>>>, <<1142, <<1142>>, <<1143>>>>,
       <<1143, <<1142>>, <<1143>>>>, <<1144, <<1144>>, <<1145>>>>,
       <<1145, <<1144>>, <<1145>>>>, <<1146, <<1146>>, <<1147>>>>,
       <<1147, <<1146>>, <<1147>>>>, <<1148, <<1148>>, <<1149>>>>,
       <<1149, <<1148>>, <<1149>>>>, <<1150, <<1150>>, <<1151>>>>,
       <<1151, <<1150>>, <<1151>>>>, <<1152, <<1152>>, <<1153>>>>,
       <<1153, <<1152>>, <<1153>>>>, <<1162, <<1162>>, <<1163>>>>,
       <<1163, <<1162>>, <<1163>>>>, <<1164, <<1164>>, <<1165>>>>,
       <<1165, <<1164>>, <<1165>>>>, <<1166, <<1166>>, <<1167>>>>,
       <<1167, <<1166>>, <<1167>>>>, <<1168, <<1168>>, <<1169>>>>,
       <<1169, <<1168>>, <<1169>>>>, <<1170, <<1170>>, <<1171>>>>,
       <<1171, <<1170>>, <<1171>>>>, <<1172, <<1172>>, <<1173>>>>,
       <<1173, <<1172>>, <<1173>>>>, <<1174, <<1174>>, <<1175>>>>,
       <<1175, <<1174>>, <<1175>>>>, <<1176, <<1176>>, <<1177>>>>,
       <<1177, <<1176>>, <<1177>>>>, <<1178, <<1178>>, <<1179>>>>,
       <<1179, <<1178>>, <<1179>>>>, <<1180, <<1180>>, <<1181>>>>,
       <<1181, <<1180>>, <<1181>>>>, <<1182, <<1182>>, <<1183>>>>,
       <<1183, <<1182>>, <<1183>>>>, <<1184, <<1184>>, <<1185>>>>,
       <<1185, <<1184>>, <<1185>>>>, <<1186, <<1186>>, <<1187>>>>,
       <<1187, <<1186>>, <<1187>>>>, <<1188, <<1188>>, <<1189>>>>,
       <<1189, <<1188>>, <<1189>>>>, <<1190, <<1190>>, <<1191>>>>,
       <<1191, <<1190>>, <<1191>>>>, <<1192, <<1192>>, <<1193>>>>,
       <<1193, <<1192>>, <<1193>>>>, <<1194, <<1194>>, <<1195>>>>,
       <<1195, <<1194>>, <<1195>>>>, <<1196, <<1196>>, <<1197>>>>,
       <<1197, <<1196>>, <<1197>>>>, <<1198, <<1198>>, <<1199>>>>,
       <<1199, <<1198>>, <<1199>>>>, <<1200, <<1200>>, <<1201>>>>,
       <<1201, <<1200>>, <<1201>>>>, <<1202, <<1202>>, <<1203>>>>,
       <<1203, <<1202>>, <<1203>>>>, <<1204, <<1204>>, <<1205>>>>,
       <<1205, <<1204>>, <<1205>>>>, <<1206, <<1206>>, <<1207>>>>,
       <<1207, <<1206>>, <<1207>>>>, <<1208, <<1208>>, <<1209>>>>,
       <<1209, <<1208>>, <<1209>>>>, <<1210, <<1210>>, <<1211>>>>,
       <<1211, <<1210>>, <<1211>>>>, <<1212, <<1212>>, <<1213>>>>,
       <<1213, <<1212>>, <<1213>>>>, <<1214, <<1214>>, <<1215>>>>,
       <<1215, <<1214>>, <<1215>>>>, <<1216, <<1216>>, <<1231>>>>,
       <<1217, <<1217>>, <<1218>>>>, <<1218, <<1217>>, <<1218>>>>,
       <<1219, <<1219>>, <<1220>>>>, <<1220, <<1219>>, <<1220>>>>,
       <<1221, <<1221>>, <<1222>>>>, <<1222, <<1221>>, <<1222>>>>,
       <<1223, <<1223>>, <<1224>>>>, <<1224, <<1223>>, <<1224>>>>,
       <<1225, <<1225>>, <<1226>>>>, <<1226, <<1225>>, <<1226>>>>,
       <<1227, <<1227>>, <<1228>>>>, <<1228, <<1227>>, <<1228>>>>,
       <<1229, <<1229>>, <<1230>>>>, <<1230, <<1229>>, <<1230>>>>,
       <<1231, <<1216>>, <<1231>>>>, <<1232, <<1232>>, <<1233>>>>,
       <<1233, <<1232>>, <<1233>>>>, <<1234, <<1234>>, <<1235>>>>,
       <<1235, <<1234>>, <<1235>>>>, <<1236, <<1236>>, <<1237>>>>,
       <<1237, <<1236>>, <<1237>>>>, <<1238, <<1238>>, <<1239>>>>,
       <<1239, <<1238>>, <<1239>>>>, <<1240, <<1240>>, <<1241>>>>,
       <<1241, <<1240>>, <<1241>>>>, <<1242, <<1242>>, <<1243>>>>,
       <<1243, <<1242>>, <<1243>>>>, <<1244, <<1244>>, <<1245>>>>,
       <<1245, <<1244>>, <<1245>>>>, <<1246, <<1246>>, <<1247>>>>,
       <<1247, <<1246>>, <<1247>>>>, <<1248, <<1248>>, <<1249>>>>,
       <<1249, <<1248>>, <<1249>>>>, <<1250, <<1250>>, <<1251>>>>,
       <<1251, <<1250>>, <<1251>>>>, <<1252, <<1252>>, <<1253>>>>,
       <<1253, <<1252>>, <<1253>>>>, <<1254, <<1254>>, <<1255>>>>,
       <<1255, <<1254>>, <<1255>>>>, <<1256, <<1256>>, <<1257>>>>,
       <<1257, <<1256>>, <<1257>>>>, <<1258, <<1258>>, <<1259>>>>,
       <<1259, <<1258>>, <<1259>>>>, <<1260, <<1260>>, <<1261>>>>,
       <<1261, <<1260>>, <<1261>>>>, <<1262, <<1262>>, <<1263>>>>,
       <<1263, <<1262>>, <<1263>>>>, <<1264, <<1264>>, <<1265>>>>,
       <<1265, <<1264>>, <<1265>>>>, <<1266, <<1266>>, <<1267>>>>,
       <<1267, <<1266>>, <<1267>>>>, <<1268, <<1268>>, <<1269>>>>,
       <<1269, <<1268>>, <<1269>>>>, <<1270, <<1270>>, <<1271>>>>,
       <<1271, <<1270>>, <<1271>>>>, <<1272, <<1272>>, <<1273>>>>,
       <<1273, <<1272>>, <<1273>>>>, <<1274, <<1274>>, <<1275>>>>,
       <<1275, <<1274>>, <<1275>>>>, <<1276, <<1276>>, <<1277>>>>,
       <<1277, <<1276>>, <<1277>>>>, <<1278, <<1278>>, <<1279>>>>,
       <<1279, <<1278>>, <<1279>>>>, <<1280, <<1280>>, <<1281>>>>,
       <<1281, <<1280>>, <<1281>>>>, <<1282, <<1282>>, <<1283>>>>,
       <<1283, <<1282>>, <<1283>>>>, <<1284, <<1284>>, <<1285>>>>,
       <<1285, <<1284>>, <<1285>>>>, <<1286, <<1286>>, <<1287>>>>,
       <<1287, <<1286>>, <<1287>>>>, <<1288, <<1288>>, <<1289>>>>,
       <<1289, <<1288>>, <<1289>>>>, <<1290, <<1290>>, <<1291>>>>,
       <<1291, <<1290>>, <<1291>>>>, <<1292, <<1292>>, <<1293>>>>,
       <<1293, <<1292>>, <<1293>>>>, <<1294, <<1294>>, <<1295>>>>,
       <<1295, <<1294>>, <<1295>>>>, <<1296, <<1296>>, <<1297>>>>,
       <<1297, <<1296>>, <<1297>>>>, <<1298, <<1298>>, <<1299>>>>,
       <<1299, <<1298>>, <<1299>>>>, <<1300, <<1300>>, <<1301>>>>,
       <<1301, <<1300>>, <<1301>>>>, <<1302, <<1302>>, <<1303>>>>,
       <<1303, <<1302>>, <<1303>>>>, <<1304, <<1304>>, <<1305>>>>,
       <<1305, <<1304>>, <<1305>>>>, <<1306, <<1306>>, <<1307>>>>,
       <<1307, <<1306>>, <<1307>>>>, <<1308, <<1308>>, <<1309>>>>,
       <<1309, <<1308>>, <<1309>>>>, <<1310, <<1310>>, <<1311>>>>,
       <<1311, <<1310>>, <<1311>>>>, <<1312, <<1312>>, <<1313>>>>,
       <<1313, <<1312>>, <<1313>>>>, <<1314, <<1314>>, <<1315>>>>,
       <<1315, <<1314>>, <<1315>>>>, <<1316, <<1316>>, <<1317>>>>,
       <<1317, <<1316>>, <<1317>>>>, <<1318, <<1318>>, <<1319>>>>,
       <<1319, <<1318>>, <<1319>>>>, <<1320, <<1320>>, <<1321>>>>,
       <<1321, <<1320>>, <<1321>>>>, <<1322, <<1322>>, <<1323>>>>,
       <<1323, <<1322>>, <<1323>>>>, <<1324, <<1324>>, <<1325>>>>,
       <<1325, <<1324>>, <<1325>>>>, <<1326, <<1326>>, <<1327>>>>,
       <<1327, <<1326>>, <<1327>>>>, <<1329, <<1329>>, <<1377>>>>,
       <<1330, <<1330>>, <<1378>>>>, <<1331, <<1331>>, <<1379>>>>,
       <<1332, <<1332>>, <<1380>>>>, <<1333, <<1333>>, <<1381>>>>,
       <<1334, <<1334>>, <<1382>>>>, <<1335, <<1335>>, <<1383>>>>,
       <<1336, <<1336>>, <<1384>>>>, <<1337, <<1337>>, <<1385>>>>,
       <<1338, <<1338>>, <<1386>>>>, <<1339, <<1339>>, <<1387>>>>,
       <<1340, <<1340>>, <<1388>>>>, <<1341, <<1341>>, <<1389>>>>,
       <<1342, <<1342>>, <<1390>>>>, <<1343, <<1343>>, <<1391>>>>,
       <<1344, <<1344>>, <<1392>>>>, <<1345, <<1345>>, <<1393>>>>,
       <<1346, <<1346>>, <<1394>>>>, <<1347, <<1347>>, <<1395>>>>,
       <<1348, <<1348>>, <<1396>>>>, <<1349, <<1349>>, <<1397>>>>,
       <<1350, <<1350>>, <<1398>>>>, <<1351, <<1351>>, <<1399>>>>,
       <<1352, <<1352>>, <<1400>>>>, <<1353, <<1353>>, <<1401>>>>,
       <<1354, <<1354>>, <<1402>>>>, <<1355, <<1355>>, <<1403>>>>,
       <<1356, <<1356>>, <<1404>>>>, <<1357, <<1357>>, <<1405>>>>,
       <<1358, <<1358>>, <<1406>>>>, <<1359, <<1359>>, <<1407>>>>,
       <<1360, <<1360>>, <<1408>>>>, <<1361, <<1361>>, <<1409>>>>,
       <<1362, <<1362>>, <<1410>>>>, <<1363, <<1363>>, <<1411>>>>,
       <<1364, <<1364>>, <<1412>>>>, <<1365, <<1365>>, <<1413>>>>,
       <<1366, <<1366>>, <<1414>>>>, <<1377, <<1329>>, <<1377>>>>,
       <<1378, <<1330>>, <<1378>>>>, <<1379, <<1331>>, <<1379>>>>,
       <<1380, <<1332>>, <<1380>>>>, <<1381, <<1333>>, <<1381>>>>,
       <<1382, <<1334>>, <<1382>>>>, <<1383, <<1335>>, <<1383>>>>,
       <<1384, <<1336>>, <<1384>>>>, <<1385, <<1337>>, <<1385>>>>,
       <<1386, <<1338>>, <<1386>>>>, <<1387, <<1339>>, <<1387>>>>,
       <<1388, <<1340>>, <<1388>>>>, <<1389, <<1341>>, <<1389>>>>,
       <<1390, <<1342>>, <<1390>>>>, <<1391, <<1343>>, <<1391>>>>,
       <<1392, <<1344>>, <<1392>>>>, <<1393, <<1345>>, <<1393>>>>,
       <<1394, <<1346>>, <<1394>>>>, <<1395, <<1347>>, <<1395>>>>,
       <<1396, <<1348>>, <<1396>>>>, <<1397, <<1349>>, <<1397>>>>,
       <<1398, <<1350>>, <<1398>>>>, <<1399, <<1351>>, <<1399>>>>,
       <<1400, <<1352>>, <<1400>>>>, <<1401, <<1353>>, <<1401>>>>,
       <<1402, <<1354>>, <<1402>>>>, <<1403, <<1355>>, <<1403>>>>,
       <<1404, <<1356>>, <<1404>>>>, <<1405, <<1357>>, <<1405>>>>,
       <<1406, <<1358>>, <<1406>>>>, <<1407, <<1359>>, <<1407>>>>,
       <<1408, <<1360>>, <<1408>>>>, <<1409, <<1361>>, <<1409>>>>,
       <<1410, <<1362>>, <<1410>>>>, <<1411, <<1363>>, <<1411>>>>,
       <<1412, <<1364>>, <<1412>>>>, <<1413, <<1365>>, <<1413>>>>,
       <<1414, <<1366>>, <<1414>>>>, <<1415, <<1333, 1362>>, <<1415>>>>,
       <<4256, <<4256>>, <<11520>>>>, <<4257, <<4257>>, <<11521>>>>,
       <<4258, <<4258>>, <<11522>>>>, <<4259, <<4259>>, <<11523>>>>,
       <<4260, <<4260>>, <<11524>>>>, <<4261, <<4261>>, <<11525>>>>,
       <<4262, <<4262>>, <<11526>>>>, <<4263, <<4263>>, <<11527>>>>,
       <<4264, <<4264>>, <<11528>>>>, <<4265, <<4265>>, <<11529>>>>,
       <<4266, <<4266>>, <<11530>>>>, <<4267, <<4267>>, <<11531>>>>,
       <<4268, <<4268>>, <<11532>>>>, <<4269, <<4269>>, <<11533>>>>,
       <<4270, <<4270>>, <<11534>>>>, <<4271, <<4271>>, <<11535>>>>,
       <<4272, <<4272>>, <<11536>>>>, <<4273, <<4273>>, <<11537>>>>,
       <<4274, <<4274>>, <<11538>>>>, <<4275, <<4275>>, <<11539>>>>,
       <<4276, <<4276>>, <<11540>>>>, <<4277, <<4277>>, <<11541>>>>,
       <<4278, <<4278>>, <<11542>>>>, <<4279, <<4279>>, <<11543>>>>,
       <<4280, <<4280>>, <<11544>>>>, <<4281, <<4281>>, <<11545>>>>,
       <<4282, <<4282>>, <<11546>>>>, <<4283, <<4283>>, <<11547>>>>,
       <<4284, <<4284>>, <<11548>>>>, <<4285, <<4285>>, <<11549>>>>,
       <<4286, <<4286>>, <<11550>>>>, <<4287, <<4287>>, <<11551>>>>,
       <<4288, <<4288>>, <<11552>>>>, <<4289, <<4289>>, <<11553>>>>,
       <<4290, <<4290>>, <<11554>>>>, <<4291, <<4291>>, <<11555>>>>,
       <<4292, <<4292>>, <<11556>>>>, <<4293, <<4293>>, <<11557>>>>,
       <<4295, <<4295>>, <<11559>>>>, <<4301, <<4301>>, <<11565>>>>,
       <<4304, <<7312>>, <<4304>>>>, <<4305, <<7313>>, <<4305>>>>,
       <<4306, <<7314>>, <<4306>>>>, <<4307, <<7315>>, <<4307>>>>,
       <<4308, <<7316>>, <<4308>>>>, <<4309, <<7317>>, <<4309>>>>,
       <<4310, <<7318>>, <<4310>>>>, <<4311, <<7319>>, <<4311>>>>,
       <<4312, <<7320>>, <<4312>>>>, <<4313, <<7321>>, <<4313>>>>,
       <<4314, <<7322>>, <<4314>>>>, <<4315, <<7323>>, <<4315>>>>,
       <<4316, <<7324>>, <<4316>>>>, <<4317, <<7325>>, <<4317>>>>,
       <<4318, <<7326>>, <<4318>>>>, <<4319, <<7327>>, <<4319>>>>,
       <<4320, <<7328>>, <<4320>>>>, <<4321, <<7329>>, <<4321>>>>,
       <<4322, <<7330>>, <<4322>>>>, <<4323, <<7331>>, <<4323>>>>,
       <<4324, <<7332>>, <<4324>>>>, <<4325, <<7333>>, <<4325>>>>,
       <<4326, <<7334>>, <<4326>>>>, <<4327, <<7335>>, <<4327>>>>,
       <<4328, <<7336>>, <<4328>>>>, <<4329, <<7337>>, <<4329>>>>,
       <<4330, <<7338>>, <<4330>>>>, <<4331, <<7339>>, <<4331>>>>,
       <<4332, <<7340>>, <<4332>>>>, <<4333, <<7341>>, <<4333>>>>,
       <<4334, <<7342>>, <<4334>>>>, <<4335, <<7343>>, <<4335>>>>,
       <<4336, <<7344>>, <<4336>>>>, <<4337, <<7345>>, <<4337>>>>,
       <<4338, <<7346>>, <<4338>>>>, <<4339, <<7347>>, <<4339>>>>,
       <<4340, <<7348>>, <<4340>>>>, <<4341, <<7349>>, <<4341>>>>,
       <<4342, <<7350>>, <<4342>>>>, <<4343, <<7351>>, <<4343>>>>,
       <<4344, <<7352>>, <<4344>>>>, <<4345, <<7353>>, <<4345>>>>,
       <<4346, <<7354>>, <<4346>>>>, <<4349, <<7357>>, <<4349>>>>,
       <<4350, <<7358>>, <<4350>>>>, <<4351, <<7359>>, <<4351>>>>,
       <<5024, <<5024>>, <<43888>>>>, <<5025, <<5025>>, <<43889>>>>,
       <<5026, <<5026>>, <<43890>>>>, <<5027, <<5027>>, <<43891>>>>,
       <<5028, <<5028>>, <<43892>>>>, <<5029, <<5029>>, <<43893>>>>,
       <<5030, <<5030>>, <<43894>>>>, <<5031, <<5031>>, <<43895>>>>,
       <<5032, <<5032>>, <<43896>>>>, <<5033, <<5033>>, <<43897>>>>,
       <<5034, <<5034>>, <<43898>>>>, <<5035, <<5035>>, <<43899>>>>,
       <<5036, <<5036>>, <<43900>>>>, <<5037, <<5037>>, <<43901>>>>,
       <<5038, <<5038>>, <<43902>>>>, <<5039, <<5039>>, <<43903>>>>,
       <<5040, <<5040>>, <<43904>>>>, <<5041, <<5041>>, <<43905>>>>,
       <<5042, <<5042>>, <<43906>>>>, <<5043, <<5043>>, <<43907>>>>,
       <<5044, <<5044>>, <<43908>>>>, <<5045, <<5045>>, <<43909>>>>,
       <<5046, <<5046>>, <<43910>>>>, <<5047, <<5047>>, <<43911>>>>,
       <<5048, <<5048>>, <<43912>>>>, <<5049, <<5049>>, <<43913>>>>,
       <<5050, <<5050>>, <<43914>>>>, <<5051, <<5051>>, <<43915>>>>,
       <<5052, <<5052>>, <<43916>>>>, <<5053, <<5053>>, <<43917>>>>,
       <<5054, <<5054>>, <<43918>>>>, <<5055, <<5055>>, <<43919>>>>,
       <<5056, <<5056>>, <<43920>>>>, <<5057, <<5057>>, <<43921>>>>,
       <<5058, <<5058>>, <<43922>>>>, <<5059, <<5059>>, <<43923>>>>,
       <<5060, <<5060>>, <<43924>>>>, <<5061, <<5061>>, <<43925>>>>,
       <<5062, <<5062>>, <<43926>>>>, <<5063, <<5063>>, <<43927>>>>,
       <<5064, <<5064>>, <<43928>>>>, <<5065, <<5065>>, <<43929>>>>,
       <<5066, <<5066>>, <<43930>>>>, <<5067, <<5067>>, <<43931>>>>,
       <<5068, <<5068>>, <<43932>>>>, <<5069, <<5069>>, <<43933>>>>,
       <<5070, <<5070>>, <<43934>>>>, <<5071, <<5071>>, <<43935>>>>,
       <<5072, <<5072>>, <<43936>>>>, <<5073, <<5073>>, <<43937>>>>,
       <<5074, <<5074>>, <<43938>>>>, <<5075, <<5075>>, <<43939>>>>,
       <<5076, <<5076>>, <<43940>>>>, <<5077, <<5077>>, <<43941>>>>,
       <<5078, <<5078>>, <<43942>>>>, <<5079, <<5079>>, <<43943>>>>,
       <<5080, <<5080>>, <<43944>>>>, <<5081, <<5081>>, <<43945>>>>,
       <<5082, <<5082>>, <<43946>>>>, <<5083, <<5083>>, <<43947>>>>,
       <<5084, <<5084>>, <<43948>>>>, <<5085, <<5085>>, <<43949>>>>,
       <<5086, <<5086>>, <<43950>>>>, <<5087, <<5087>>, <<43951>>>>,
       <<5088, <<5088>>, <<43952>>>>, <<5089, <<5089>>, <<43953>>>>,
       <<5090, <<5090>>, <<43954>>>>, <<5091, <<5091>>, <<43955>>>>,
       <<5092, <<5092>>, <<43956>>>>, <<5093, <<5093>>, <<43957>>>>,
       <<5094, <<5094>>, <<43958>>>>, <<5095, <<5095>>, <<43959>>>>,
       <<5096, <<5096>>, <<43960>>>>, <<5097, <<5097>>, <<43961>>>>,
       <<5098, <<5098>>, <<43962>>>>, <<5099, <<5099>>, <<43963>>>>,
       <<5100, <<5100>>, <<43964>>>>, <<5101, <<5101>>, <<43965>>>>,
       <<5102, <<5102>>, <<43966>>>>, <<5103, <<5103>>, <<43967>>>>,
       <<5104, <<5104>>, <<5112>>>>, <<5105, <<5105>>, <<5113>>>>,
       <<5106, <<5106>>, <<5114>>>>, <<5107, <<5107>>, <<5115>>>>,
       <<5108, <<5108>>, <<5116>>>>, <<5109, <<5109>>, <<5117>>>>,
       <<5112, <<5104>>, <<5112>>>>, <<5113, <<5105>>, <<5113>>>>,
       <<5114, <<5106>>, <<5114>>>>, <<5115, <<5107>>, <<5115>>>>,
       <<5116, <<5108>>, <<5116>>>>, <<5117, <<5109>>, <<5117>>>>,
       <<7296, <<1042>>, <<7296>>>>, <<7297, <<1044>>, <<7297>>>>,
       <<7298, <<1054>>, <<7298>>>>, <<7299, <<1057>>, <<7299>>>>,
       <<7300, <<1058>>, <<7300>>>>, <<7301, <<1058>>, <<7301>>>>,
       <<7302, <<1066>>, <<7302>>>>, <<7303, <<1122>>, <<7303>>>>,
       <<7304, <<42570>>, <<7304>>>>, <<7312, <<7312>>, <<4304>>>>,
       <<7313, <<7313>>, <<4305>>>>, <<7314, <<7314>>, <<4306>>>>,
       <<7315, <<7315>>, <<4307>>>>, <<7316, <<7316>>, <<4308>>>>,
       <<7317, <<7317>>, <<4309>>>>, <<7318, <<7318>>, <<4310>>>>,
       <<7319, <<7319>>, <<4311>>>>, <<7320, <<7320>>, <<4312>>>>,
       <<7321, <<7321>>, <<4313>>>>, <<7322, <<7322>>, <<4314>>>>,
       <<7323, <<7323>>, <<4315>>>>, <<7324, <<7324>>, <<4316>>>>,
       <<7325, <<7325>>, <<4317>>>>, <<7326, <<7326>>, <<4318>>>>,
       <<7327, <<7327>>, <<4319>>>>, <<7328, <<7328>>, <<4320>>>>,
       <<7329, <<7329>>, <<4321>>>>, <<7330, <<7330>>, <<4322>>>>,
       <<7331, <<7331>>, <<4323>>>>, <<7332, <<7332>>, <<4324>>>>,
       <<7333, <<7333>>, <<4325>>>>, <<7334, <<7334>>, <<4326>>>>,
       <<7335, <<7335>>, <<4327>>>>, <<7336, <<7336>>, <<4328>>>>,
       <<7337, <<7337>>, <<4329>>>>, <<7338, <<7338>>, <<4330>>>>,
       <<7339, <<7339>>, <<4331>>>>, <<7340, <<7340>>, <<4332>>>>,
       <<7341, <<7341>>, <<4333>>>>, <<7342, <<7342>>, <<4334>>>>,
       <<7343, <<7343>>, <<4335>>>>, <<7344, <<7344>>, <<4336>>>>,
       <<7345, <<7345>>, <<4337>>>>, <<7346, <<7346>>, <<4338>>>>,
       <<7347, <<7347>>, <<4339>>>>, <<7348, <<7348>>, <<4340>>>>,
       <<7349, <<7349>>, <<4341>>>>, <<7350, <<7350>>, <<4342>>>>,
       <<7351, <<7351>>, <<4343>>>>, <<7352, <<7352>>, <<4344>>>>,
       <<7353, <<7353>>, <<4345>>>>, <<7354, <<7354>>, <<4346>>>>,
       <<7357, <<7357>>, <<4349>>>>, <<7358, <<7358>>, <<4350>>>>,
       <<7359, <<7359>>, <<4351>>>>, <<7545, <<42877>>, <<7545>>>>,
       <<7549, <<11363>>, <<7549>>>>, <<7566, <<42950>>, <<7566>>>>,
       <<7680, <<7680>>, <<7681>>>>, <<7681, <<7680>>, <<7681>>>>,
       <<7682, <<7682>>, <<7683>>>>, <<7683, <<7682>>, <<7683>>>>,
       <<7684, <<7684>>, <<7685>>>>, <<7685, <<7684>>, <<7685>>>>,
       <<7686, <<7686>>, <<7687>>>>, <<7687, <<7686>>, <<7687>>>>,
       <<7688, <<7688>>, <<7689>>>>, <<7689, <<7688>>, <<7689>>>>,
       <<7690, <<7690>>, <<7691>>>>, <<7691, <<7690>>, <<7691>>>>,
       <<7692, <<7692>>, <<7693>>>>, <<7693, <<7692>>, <<7693>>>>,
       <<7694, <<7694>>, <<7695>>>>, <<7695, <<7694>>, <<7695>>>>,
       <<7696, <<7696>>, <<7697>>>>, <<7697, <<7696>>, <<7697>>>>,
       <<7698, <<7698>>, <<7699>>>>, <<7699, <<7698>>, <<7699>>>>,
       <<7700, <<7700>>, <<7701>>>>, <<7701, <<7700>>, <<7701>>>>,
       <<7702, <<7702>>, <<7703>>>>, <<7703, <<7702>>, <<7703>>>>,
       <<7704, <<7704>>, <<7705>>>>, <<7705, <<7704>>, <<7705>>>>,
       <<7706, <<7706>>, <<7707>>>>, <<7707, <<7706>>, <<7707>>>>,
       <<7708, <<7708>>, <<7709>>>>, <<7709, <<7708>>, <<7709>>>>,
       <<7710, <<7710>>, <<7711>>>>, <<7711, <<7710>>, <<7711>>>>,
       <<7712, <<7712>>, <<7713>>>>, <<7713, <<7712>>, <<7713>>>>,
       <<7714, <<7714>>, <<7715>>>>, <<7715, <<7714>>, <<7715>>>>,
       <<7716, <<7716>>, <<7717>>>>, <<7717, <<7716>>, <<7717>>>>,
       <<7718, <<7718>>, <<7719>>>>, <<7719, <<7718>>, <<7719>>>>,
       <<7720, <<7720>>, <<7721>>>>, <<7721, <<7720>>, <<7721>>>>,
       <<7722, <<7722>>, <<7723>>>>, <<7723, <<7722>>, <<7723>>>>,
       <<7724, <<7724>>, <<7725>>>>, <<7725, <<7724>>, <<7725>>>>,
       <<7726, <<7726>>, <<7727>>>>, <<7727, <<7726>>, <<7727>>>>,
       <<7728, <<7728>>, <<7729>>>>, <<7729, <<7728>>, <<7729>>>>,
       <<7730, <<7730>>, <<7731>>>>, <<7731, <<7730>>, <<7731>>>>,
       <<7732, <<7732>>, <<7733>>>>, <<7733, <<7732>>, <<7733>>>>,
       <<7734, <<7734>>, <<7735>>>>, <<7735, <<7734>>, <<7735>>>>,
       <<7736, <<7736>>, <<7737>>>>, <<7737, <<7736>>, <<7737>>>>,
       <<7738, <<7738>>, <<7739>>>>, <<7739, <<7738>>, <<7739>>>>,
       <<7740, <<7740>>, <<7741>>>>, <<7741, <<7740>>, <<7741>>>>,
       <<7742, <<7742>>, <<7743>>>>, <<7743, <<7742>>, <<7743>>>>,
       <<7744, <<7744>>, <<7745>>>>, <<7745, <<7744>>, <<7745>>>>,
       <<7746, <<7746>>, <<7747>>>>, <<7747, <<7746>>, <<7747>>>>,
       <<7748, <<7748>>, <<7749>>>>, <<7749, <<7748>>, <<7749>>>>,
       <<7750, <<7750>>, <<7751>>>>, <<7751, <<7750>>, <<7751>>>>,
       <<7752, <<7752>>, <<7753>>>>, <<7753, <<7752>>, <<7753>>>>,
       <<7754, <<7754>>, <<7755>>>>, <<7755, <<7754>>, <<7755>>>>,
       <<7756, <<7756>>, <<7757>>>>, <<7757, <<7756>>, <<7757>>>>,
       <<7758, <<7758>>, <<7759>>>>, <<7759, <<7758>>, <<7759>>>>,
       <<7760, <<7760>>, <<7761>>>>, <<7761, <<7760>>, <<7761>>>>,
       <<7762, <<7762>>, <<7763>>>>, <<7763, <<7762>>, <<7763>>>>,
       <<7764, <<7764>>, <<7765>>>>, <<7765, <<7764>>, <<7765>>>>,
       <<7766, <<7766>>, <<7767>>>>, <<7767, <<7766>>, <<7767>>>>,
       <<7768, <<7768>>, <<7769>>>>, <<7769, <<7768>>, <<7769>>>>,
       <<7770, <<7770>>, <<7771>>>>, <<7771, <<7770>>, <<7771>>>>,
       <<7772, <<7772>>, <<7773>>>>, <<7773, <<7772>>, <<7773>>>>,
       <<7774, <<7774>>, <<7775>>>>, <<7775, <<7774>>, <<7775>>>>,
       <<7776, <<7776>>, <<7777>>>>, <<7777, <<7776>>, <<7777>>>>,
       <<7778, <<7778>>, <<7779>>>>, <<7779, <<7778>>, <<7779>>>>,
       <<7780, <<7780>>, <<7781>>>>, <<7781, <<7780>>, <<7781>>>>,
       <<7782, <<7782>>, <<7783>>>>, <<7783, <<7782>>, <<7783>>>>,
       <<7784, <<7784>>, <<7785>>>>, <<7785, <<7784>>, <<7785>>>>,
       <<7786, <<7786>>, <<7787>>>>, <<7787, <<7786>>, <<7787>>>>,
       <<7788, <<7788>>, <<7789>>>>, <<7789, <<7788>>, <<7789>>>>,
       <<7790, <<7790>>, <<7791>>>>, <<7791, <<7790>>, <<7791>>>>,
       <<7792, <<7792>>, <<7793>>>>, <<7793, <<7792>>, <<7793>>>>,
       <<7794, <<7794>>, <<7795>>>>, <<7795, <<7794>>, <<7795>>>>,
       <<7796, <<7796>>, <<7797>>>>, <<7797, <<7796>>, <<7797>>>>,
       <<7798, <<7798>>, <<7799>>>>, <<7799, <<7798>>, <<7799>>>>,
       <<7800, <<7800>>, <<7801>>>>, <<7801, <<7800>>, <<7801>>>>,
       <<7802, <<7802>>, <<7803>>>>, <<7803, <<7802>>, <<7803>>>>,
       <<7804, <<7804>>, <<7805>>>>, <<7805, <<7804>>, <<7805>>>>,
       <<7806, <<7806>>, <<7807>>>>, <<7807, <<7806>>, <<7807>>>>,
       <<7808, <<7808>>, <<7809>>>>, <<7809, <<7808>>, <<7809>>>>,
       <<7810, <<7810>>, <<7811>>>>, <<7811, <<7810>>, <<7811>>>>,
       <<7812, <<7812>>, <<7813>>>>, <<7813, <<7812>>, <<7813>>>>,
       <<7814, <<7814>>, <<7815>>>>, <<7815, <<7814>>, <<7815>>>>,
       <<7816, <<7816>>, <<7817>>>>, <<7817, <<7816>>, <<7817>>>>,
       <<7818, <<7818>>, <<7819>>>>, <<7819, <<7818>>, <<7819>>>>,
       <<7820, <<7820>>, <<7821>>>>, <<7821, <<7820>>, <<7821>>>>,
       <<7822, <<7822>>, <<7823>>>>, <<7823, <<7822>>, <<7823>>>>,
       <<7824, <<7824>>, <<7825>>>>, <<7825, <<7824>>, <<7825>>>>,
       <<7826, <<7826>>, <<7827>>>>, <<7827, <<7826>>, <<7827>>>>,
       <<7828, <<7828>>, <<7829>>>>, <<7829, <<7828>>, <<7829>>>>,
       <<7830, <<72, 817>>, <<7830>>>>, <<7831, <<84, 776>>, <<7831>>>>,
       <<7832, <<87, 778>>, <<7832>>>>, <<7833, <<89, 778>>, <<7833>>>>,
       <<7834, <<65, 702>>, <<7834>>>>, <<7835, <<7776>>, <<7835>>>>,
       <<7838, <<7838>>, <<223>>>>, <<7840, <<7840>>, <<7841>>>>,
       <<7841, <<7840>>, <<7841>>>>, <<7842, <<7842>>, <<7843>>>>,
       <<7843, <<7842>>, <<7843>>>>, <<7844, <<7844>>, <<7845>>>>,
       <<7845, <<7844>>, <<7845>>>>, <<7846, <<7846>>, <<7847>>>>,
       <<7847, <<7846>>, <<7847>>>>, <<7848, <<7848>>, <<7849>>>>,
       <<7849, <<7848>>, <<7849>>>>, <<7850, <<7850>>, <<7851>>>>,
       <<7851, <<7850>>, <<7851>>>>, <<7852, <<7852>>, <<7853>>>>,
       <<7853, <<7852>>, <<7853>>>>, <<7854, <<7854>>, <<7855>>>>,
       <<7855, <<7854>>, <<7855>>>>, <<7856, <<7856>>, <<7857>>>>,
       <<7857, <<7856>>, <<7857>>>>, <<7858, <<7858>>, <<7859>>>>,
       <<7859, <<7858>>, <<7859>>>>, <<7860, <<7860>>, <<7861>>>>,
       <<7861, <<7860>>, <<7861>>>>, <<7862, <<7862>>, <<7863>>>>,
       <<7863, <<7862>>, <<7863>>>>, <<7864, <<7864>>, <<7865>>>>,
       <<7865, <<7864>>, <<7865>>>>, <<7866, <<7866>>, <<7867>>>>,
       <<7867, <<7866>>, <<7867>>>>, <<7868, <<7868>>, <<7869>>>>,
       <<7869, <<7868>>, <<7869>>>>, <<7870, <<7870>>, <<7871>>>>,
       <<7871, <<7870>>, <<7871>>>>, <<7872, <<7872>>, <<7873>>>>,
       <<7873, <<7872>>, <<7873>>>>, <<7874, <<7874>>, <<7875>>>>,
       <<7875, <<7874>>, <<7875>>>>, <<7876, <<7876>>, <<7877>>>>,
       <<7877, <<7876>>, <<7877>>>>, <<7878, <<7878>>, <<7879>>>>,
       <<7879, <<7878>>, <<7879>>>>, <<7880, <<7880>>, <<7881>>>>,
       <<7881, <<7880>>, <<7881>>>>, <<7882, <<7882>>, <<7883>>>>,
       <<7883, <<7882>>, <<7883>>>>, <<7884, <<7884>>, <<7885>>>>,
       <<7885, <<7884>>, <<7885>>>>, <<7886, <<7886>>, <<7887>>>>,
       <<7887, <<7886>>, <<7887>>>>, <<7888, <<7888>>, <<7889>>>>,
       <<7889, <<7888>>, <<7889>>>>, <<7890, <<7890>>, <<7891>>>>,
       <<7891, <<7890>>, <<7891>>>>, <<7892, <<7892>>, <<7893>>>>,
       <<7893, <<7892>>, <<7893>>>>, <<7894, <<7894>>, <<7895>>>>,
       <<7895, <<7894>>, <<7895>>>>, <<7896, <<7896>>, <<7897>>>>,
       <<7897, <<7896>>, <<7897>>>>, <<7898, <<7898>>, <<7899>>>>,
       <<7899, <<7898>>, <<7899>>>>, <<7900, <<7900>>, <<7901>>>>,
       <<7901, <<7900>>, <<7901>>>>, <<7902, <<7902>>, <<7903>>>>,
       <<7903, <<7902>>, <<7903>>>>, <<7904, <<7904>>, <<7905>>>>,
       <<7905, <<7904>>, <<7905>>>>, <<7906, <<7906>>, <<7907>>>>,
       <<7907, <<7906>>, <<7907>>>>, <<7908, <<7908>>, <<7909>>>>,
       <<7909, <<7908>>, <<7909>>>>, <<7910, <<7910>>, <<7911>>>>,
       <<7911, <<7910>>, <<7911>>>>, <<7912, <<7912>>, <<7913>>>>,
       <<7913, <<7912>>, <<7913>>>>, <<7914, <<7914>>, <<7915>>>>,
       <<7915, <<7914>>, <<7915>>>>, <<7916, <<7916>>, <<7917>>>>,
       <<7917, <<7916>>, <<7917>>>>, <<7918, <<7918>>, <<7919>>>>,
       <<7919, <<7918>>, <<7919>>>>, <<7920, <<7920>>, <<7921>>>>,
       <<7921, <<7920>>, <<7921>>>>, <<7922, <<7922>>, <<7923>>>>,
       <<7923, <<7922>>, <<7923>>>>, <<7924, <<7924>>, <<7925>>>>,
       <<7925, <<7924>>, <<7925>>>>, <<7926, <<7926>>, <<7927>>>>,
       <<7927, <<7926>>, <<7927>>>>, <<7928, <<7928>>, <<7929>>>>,
       <<7929, <<7928>>, <<7929>>>>, <<7930, <<7930>>, <<7931>>>>,
       <<7931, <<7930>>, <<7931>>>>, <<7932, <<7932>>, <<7933>>>>,
       <<7933, <<7932>>, <<7933>>>>, <<7934, <<7934>>, <<7935>>>>,
       <<7935, <<7934>>, <<7935>>>>, <<7936, <<7944>>, <<7936>>>>,
       <<7937, <<7945>>, <<7937>>>>, <<7938, <<7946>>, <<7938>>>>,
       <<7939, <<7947>>, <<7939>>>>, <<7940, <<7948>>, <<7940>>>>,
       <<7941, <<7949>>, <<7941>>>>, <<7942, <<7950>>, <<7942>>>>,
       <<7943, <<7951>>, <<7943>>>>, <<7944, <<7944>>, <<7936>>>>,
       <<7945, <<7945>>, <<7937>>>>, <<7946, <<7946>>, <<7938>>>>,
       <<7947, <<7947>>, <<7939>>>>, <<7948, <<7948>>, <<7940>>>>,
       <<7949, <<7949>>, <<7941>>>>, <<7950, <<7950>>, <<7942>>>>,
       <<7951, <<7951>>, <<7943>>>>, <<7952, <<7960>>, <<7952>>>>,
       <<7953, <<7961>>, <<7953>>>>, <<7954, <<7962>>, <<7954>>>>,
       <<7955, <<7963>>, <<7955>>>>, <<7956, <<7964>>, <<7956>>>>,
       <<7957, <<7965>>, <<7957>>>>, <<7960, <<7960>>, <<7952>>>>,
       <<7961, <<7961>>, <<7953>>>>, <<7962, <<7962>>, <<7954>>>>,
       <<7963, <<7963>>, <<7955>>>>, <<7964, <<7964>>, <<7956>>>>,
       <<7965, <<7965>>, <<7957>>>>, <<7968, <<7976>>, <<7968>>>>,
       <<7969, <<7977>>, <<7969>>>>, <<7970, <<7978>>, <<7970>>>>,
       <<7971, <<7979>>, <<7971>>>>, <<7972, <<7980>>, <<7972>>>>,
       <<7973, <<7981>>, <<7973>>>>, <<7974, <<7982>>, <<7974>>>>,
       <<7975, <<7983>>, <<7975>>>>, <<7976, <<7976>>, <<7968>>>>,
       <<7977, <<7977>>, <<7969>>>>, <<7978, <<7978>>, <<7970>>>>,
       <<7979, <<7979>>, <<7971>>>>, <<7980, <<7980>>, <<7972>>>>,
       <<7981, <<7981>>, <<7973>>>>, <<7982, <<7982>>, <<7974>>>>,
       <<7983, <<7983>>, <<7975>>>>, <<7984, <<7992>>, <<7984>>>>,
       <<7985, <<7993>>, <<7985>>>>, <<7986, <<7994>>, <<7986>>>>,
       <<7987, <<7995>>, <<7987>>>>, <<7988, <<7996>>, <<7988>>>>,
       <<7989, <<7997>>, <<7989>>>>, <<7990, <<7998>>, <<7990>>>>,
       <<7991, <<7999>>, <<7991>>>>, <<7992, <<7992>>, <<7984>>>>,
       <<7993, <<7993>>, <<7985>>>>, <<7994, <<7994>>, <<7986>>>>,
       <<7995, <<7995>>, <<7987>>>>, <<7996, <<7996>>, <<7988>>>>,
       <<7997, <<7997>>, <<7989>>>>, <<7998, <<7998>>, <<7990>>>>,
       <<7999, <<7999>>, <<7991>>>>, <<8000, <<8008>>, <<8000>>>>,
       <<8001, <<8009>>, <<8001>>>>, <<8002, <<8010>>, <<8002>>>>,
       <<8003, <<8011>>, <<8003>>>>, <<8004, <<8012>>, <<8004>>>>,
       <<8005, <<8013>>, <<8005>>>>, <<8008, <<8008>>, <<8000>>>>,
       <<8009, <<8009>>, <<8001>>>>, <<8010, <<8010>>, <<8002>>>>,
       <<8011, <<8011>>, <<8003>>>>, <<8012, <<8012>>, <<8004>>>>,
       <<8013, <<8013>>, <<8005>>>>, <<8016, <<933, 787>>, <<8016>>>>,
       <<8017, <<8025>>, <<8017>>>>, <<8018, <<933, 787, 768>>, <<8018>>>>,
       <<8019, <<8027>>, <<8019>>>>, <<8020, <<933, 787, 769>>, <<8020>>>>,
       <<8021, <<8029>>, <<8021>>>>, <<8022, <<933, 787, 834>>, <<8022>>>>,
       <<8023, <<8031>>, <<8023>>>>, <<8025, <<8025>>, <<8017>>>>,
       <<8027, <<8027>>, <<8019>>>>, <<8029, <<8029>>, <<8021>>>>,
       <<8031, <<8031>>, <<8023>>>>, <<8032, <<8040>>, <<8032>>>>,
       <<8033, <<8041>>, <<8033>>>>, <<8034, <<8042>>, <<8034>>>>,
       <<8035, <<8043>>, <<8035>>>>, <<8036, <<8044>>, <<8036>>>>,
       <<8037, <<8045>>, <<8037>>>>, <<8038, <<8046>>, <<8038>>>>,
       <<8039, <<8047>>, <<8039>>>>, <<8040, <<8040>>, <<8032>>>>,
       <<8041, <<8041>>, <<8033>>>>, <<8042, <<8042>>, <<8034>>>>,
       <<8043, <<8043>>, <<8035>>>>, <<8044, <<8044>>, <<8036>>>>,
       <<8045, <<8045>>, <<8037>>>>, <<8046, <<8046>>, <<8038>>>>,
       <<8047, <<8047>>, <<8039>>>>, <<8048, <<8122>>, <<8048>>>>,
       <<8049, <<8123>>, <<8049>>>>, <<8050, <<8136>>, <<8050>>>>,
       <<8051, <<8137>>, <<8051>>>>, <<8052, <<8138>>, <<8052>>>>,
       <<8053, <<8139>>, <<8053>>>>, <<8054, <<8154>>, <<8054>>>>,
       <<8055, <<8155>>, <<8055>>>>, <<8056, <<8184>>, <<8056>>>>,
       <<8057, <<8185>>, <<8057>>>>, <<8058, <<8170>>, <<8058>>>>,
       <<8059, <<8171>>, <<8059>>>>, <<8060, <<8186>>, <<8060>>>>,
       <<8061, <<8187>>, <<8061>>>>, <<8064, <<7944, 921>>, <<8064>>>>,
       <<8065, <<7945, 921>>, <<8065>>>>, <<8066, <<7946, 921>>, <<8066>>>>,
       <<8067, <<7947, 921>>, <<8067>>>>, <<8068, <<7948, 921>>, <<8068>>>>,
       <<8069, <<7949, 921>>, <<8069>>>>, <<8070, <<7950, 921>>, <<8070>>>>,
       <<8071, <<7951, 921>>, <<8071>>>>, <<8072, <<7944, 921>>, <<8064>>>>,
       <<8073, <<7945, 921>>, <<8065>>>>, <<8074, <<7946, 921>>, <<8066>>>>,
       <<8075, <<7947, 921>>, <<8067>>>>, <<8076, <<7948, 921>>, <<8068>>>>,
       <<8077, <<7949, 921>>, <<8069>>>>, <<8078, <<7950, 921>>, <<8070>>>>,
       <<8079, <<7951, 921>>, <<8071>>>>, <<8080, <<7976, 921>>, <<8080>>>>,
       <<8081, <<7977, 921>>, <<8081>>>>, <<8082, <<7978, 921>>, <<8082>>>>,
       <<8083, <<7979, 921>>, <<8083>>>>, <<8084, <<7980, 921>>, <<8084>>>>,
       <<8085, <<7981, 921>>, <<8085>>>>, <<8086, <<7982, 921>>, <<8086>>>>,
       <<8087, <<7983, 921>>, <<8087>>>>, <<8088, <<7976, 921>>, <<8080>>>>,
       <<8089, <<7977, 921>>, <<8081>>>>, <<8090, <<7978, 921>>, <<8082>>>>,
       <<8091, <<7979, 921>>, <<8083>>>>, <<8092, <<7980, 921>>, <<8084>>>>,
       <<8093, <<7981, 921>>, <<8085>>>>, <<8094, <<7982, 921>>, <<8086>>>>,
       <<8095, <<7983, 921>>, <<8087>>>>, <<8096, <<8040, 921>>, <<8096>>>>,
       <<8097, <<8041, 921>>, <<8097>>>>, <<8098, <<8042, 921>>, <<8098>>>>,
       <<8099, <<8043, 921>>, <<8099>>>>, <<8100, <<8044, 921>>, <<8100>>>>,
       <<8101, <<8045, 921>>, <<8101>>>>, <<8102, <<8046, 921>>, <<8102>>>>,
       <<8103, <<8047, 921>>, <<8103>>>>, <<8104, <<8040, 921>>, <<8096>>>>,
       <<8105, <<8041, 921>>, <<8097>>>>, <<8106, <<8042, 921>>, <<8098>>>>,
       <<8107, <<8043, 921>>, <<8099>>>>, <<8108, <<8044, 921>>, <<8100>>>>,
       <<8109, <<8045, 921>>, <<8101>>>>, <<8110, <<8046, 921>>, <<8102>>>>,
       <<8111, <<8047, 921>>, <<8103>>>>, <<8112, <<8120>>, <<8112>>>>,
       <<8113, <<8121>>, <<8113>>>>, <<8114, <<8122, 921>>, <<8114>>>>,
       <<8115, <<913, 921>>, <<8115>>>>, <<8116, <<902, 921>>, <<8116>>>>,
       <<8118, <<913, 834>>, <<8118>>>>,
       <<8119, <<913, 834, 921>>, <<8119>>>>, <<8120, <<8120>>, <<8112>>>>,
       <<8121, <<8121>>, <<8113>>>>, <<8122, <<8122>>, <<8048>>>>,
       <<8123, <<8123>>, <<8049>>>>, <<8124, <<913, 921>>, <<8115>>>>,
       <<8126, <<921>>, <<8126>>>>, <<8130, <<8138, 921>>, <<8130>>>>,
       <<8131, <<919, 921>>, <<8131>>>>, <<8132, <<905, 921>>, <<8132>>>>,
       <<8134, <<919, 834>>, <<8134>>>>,
       <<8135, <<919, 834, 921>>, <<8135>>>>, <<8136, <<8136>>, <<8050>>>>,
       <<8137, <<8137>>, <<8051>>>>, <<8138, <<8138>>, <<8052>>>>,
       <<8139, <<8139>>, <<8053>>>>, <<8140, <<919, 921>>, <<8131>>>>,
       <<8144, <<8152>>, <<8144>>>>, <<8145, <<8153>>, <<8145>>>>,
       <<8146, <<921, 776, 768>>, <<8146>>>>,
       <<8147, <<921, 776, 769>>, <<8147>>>>,
       <<8150, <<921, 834>>, <<8150>>>>,
       <<8151, <<921, 776, 834>>, <<8151>>>>, <<8152, <<8152>>, <<8144>>>>,
       <<8153, <<8153>>, <<8145>>>>, <<8154, <<8154>>, <<8054>>>>,
       <<8155, <<8155>>, <<8055>>>>, <<8160, <<8168>>, <<8160>>>>,
       <<8161, <<8169>>, <<8161>>>>, <<8162, <<933, 776, 768>>, <<8162>>>>,
       <<8163, <<933, 776, 769>>, <<8163>>>>,
       <<8164, <<929, 787>>, <<8164>>>>, <<8165, <<8172>>, <<8165>>>>,
       <<8166, <<933, 834>>, <<8166>>>>,
       <<8167, <<933, 776, 834>>, <<8167>>>>, <<8168, <<8168>>, <<8160>>>>,
       <<8169, <<8169>>, <<8161>>>>, <<8170, <<8170>>, <<8058>>>>,
       <<8171, <<8171>>, <<8059>>>>, <<8172, <<8172>>, <<8165>>>>,
       <<8178, <<8186, 921>>, <<8178>>>>, <<8179, <<937, 921>>, <<8179>>>>,
       <<8180, <<911, 921>>, <<8180>>>>, <<8182, <<937, 834>>, <<8182>>>>,
       <<8183, <<937, 834, 921>>, <<8183>>>>, <<8184, <<8184>>, <<8056>>>>,
       <<8185, <<8185>>, <<8057>>>>, <<8186, <<8186>>, <<8060>>>>,
       <<8187, <<8187>>, <<8061>>>>, <<8188, <<937, 921>>, <<8179>>>>,
       <<8486, <<8486>>, <<969>>>>, <<8490, <<8490>>, <<107>>>>,
       <<8491, <<8491>>, <<229>>>>, <<8498, <<8498>>, <<8526>>>>,
       <<8526, <<8498>>, <<8526>>>>, <<8544, <<8544>>, <<8560>>>>,
       <<8545, <<8545>>, <<8561>>>>, <<8546, <<8546>>, <<8562>>>>,
       <<8547, <<8547>>, <<8563>>>>, <<8548, <<8548>>, <<8564>>>>,
       <<8549, <<8549>>, <<8565>>>>, <<8550, <<8550>>, <<8566>>>>,
       <<8551, <<8551>>, <<8567>>>>, <<8552, <<8552>>, <<8568>>>>,
       <<8553, <<8553>>, <<8569>>>>, <<8554, <<8554>>, <<8570>>>>,
       <<8555, <<8555>>, <<8571>>>>, <<8556, <<8556>>, <<8572>>>>,
       <<8557, <<8557>>, <<8573>>>>, <<8558, <<8558>>, <<8574>>>>,
       <<8559, <<8559>>, <<8575>>>>, <<8560, <<8544>>, <<8560>>>>,
       <<8561, <<8545>>, <<8561>>>>, <<8562, <<8546>>, <<8562>>>>,
       <<8563, <<8547>>, <<8563>>>>, <<8564, <<8548>>, <<8564>>>>,
       <<8565, <<8549>>, <<8565>>>>, <<8566, <<8550>>, <<8566>>>>,
       <<8567, <<8551>>, <<8567>>>>, <<8568, <<8552>>, <<8568>>>>,
       <<8569, <<8553>>, <<8569>>>>, <<8570, <<8554>>, <<8570>>>>,
       <<8571, <<8555>>, <<8571>>>>, <<8572, <<8556>>, <<8572>>>>,
       <<8573, <<8557>>, <<8573>>>>, <<8574, <<8558>>, <<8574>>>>,
       <<8575, <<8559>>, <<8575>>>>, <<8579, <<8579>>, <<8580>>>>,
       <<8580, <<8579>>, <<8580>>>>, <<9398, <<9398>>, <<9424>>>>,
       <<9399, <<9399>>, <<9425>>>>, <<9400, <<9400>>, <<9426>>>>,
       <<9401, <<9401>>, <<9427>>>>, <<9402, <<9402>>, <<9428>>>>,
       <<9403, <<9403>>, <<9429>>>>, <<9404, <<9404>>, <<9430>>>>,
       <<9405, <<9405>>, <<9431>>>>, <<9406, <<9406>>, <<9432>>>>,
       <<9407, <<9407>>, <<9433>>>>, <<9408, <<9408>>, <<9434>>>>,
       <<9409, <<9409>>, <<9435>>>>, <<9410, <<9410>>, <<9436>>>>,
       <<9411, <<9411>>, <<9437>>>>, <<9412, <<9412>>, <<9438>>>>,
       <<9413, <<9413>>, <<9439>>>>, <<9414, <<9414>>, <<9440>>>>,
       <<9415, <<9415>>, <<9441>>>>, <<9416, <<9416>>, <<9442>>>>,
       <<9417, <<9417>>, <<9443>>>>, <<9418, <<9418>>, <<9444>>>>,
       <<9419, <<9419>>, <<9445>>>>, <<9420, <<9420>>, <<9446>>>>,
       <<9421, <<9421>>, <<9447>>>>, <<9422, <<9422>>, <<9448>>>>,
       <<9423, <<9423>>, <<9449>>>>, <<9424, <<9398>>, <<9424>>>>,
       <<9425, <<9399>>, <<9425>>>>, <<9426, <<9400>>, <<9426>>>>,
       <<9427, <<9401>>, <<9427>>>>, <<9428, <<9402>>, <<9428>>>>,
       <<9429, <<9403>>, <<9429>>>>, <<9430, <<9404>>, <<9430>>>>,
       <<9431, <<9405>>, <<9431>>>>, <<9432, <<9406>>, <<9432>>>>,
       <<9433, <<9407>>, <<9433>>>>, <<9434, <<9408>>, <<9434>>>>,
       <<9435, <<9409>>, <<9435>>>>, <<9436, <<9410>>, <<9436>>>>,
       <<9437, <<9411>>, <<9437>>>>, <<9438, <<9412>>, <<9438>>>>,
       <<9439, <<9413>>, <<9439>>>>, <<9440, <<9414>>, <<9440>>>>,
       <<9441, <<9415>>, <<9441>>>>, <<9442, <<9416>>, <<9442>>>>,
       <<9443, <<9417>>, <<9443>>>>, <<9444, <<9418>>, <<9444>>>>,
       <<9445, <<9419>>, <<9445>>>>, <<9446, <<9420>>, <<9446>>>>,
       <<9447, <<9421>>, <<9447>>>>, <<9448, <<9422>>, <<9448>>>>,
       <<9449, <<9423>>, <<9449>>>>, <<11264, <<11264>>, <<11312>>>>,
       <<11265, <<11265>>, <<11313>>>>, <<11266, <<11266>>, <<11314>>>>,
       <<11267, <<11267>>, <<11315>>>>, <<11268, <<11268>>, <<11316>>>>,
       <<11269, <<11269>>, <<11317>>>>, <<11270, <<11270>>, <<11318>>>>,
       <<11271, <<11271>>, <<11319>>>>, <<11272, <<11272>>, <<11320>>>>,
       <<11273, <<11273>>, <<11321>>>>, <<11274, <<11274>>, <<11322>>>>,
       <<11275, <<11275>>, <<11323>>>>, <<11276, <<11276>>, <<11324>>>>,
       <<11277, <<11277>>, <<11325>>>>, <<11278, <<11278>>, <<11326>>>>,
       <<11279, <<11279>>, <<11327>>>>, <<11280, <<11280>>, <<11328>>>>,
       <<11281, <<11281>>, <<11329>>>>, <<11282, <<11282>>, <<11330>>>>,
       <<11283, <<11283>>, <<11331>>>>, <<11284, <<11284>>, <<11332>>>>,
       <<11285, <<11285>>, <<11333>>>>, <<11286, <<11286>>, <<11334>>>>,
       <<11287, <<11287>>, <<11335>>>>, <<11288, <<11288>>, <<11336>>>>,
       <<11289, <<11289>>, <<11337>>>>, <<11290, <<11290>>, <<11338>>>>,
       <<11291, <<11291>>, <<11339>>>>, <<11292, <<11292>>, <<11340>>>>,
       <<11293, <<11293>>, <<11341>>>>, <<11294, <<11294>>, <<11342>>>>,
       <<11295, <<11295>>, <<11343>>>>, <<11296, <<11296>>, <<11344>>>>,
       <<11297, <<11297>>, <<11345>>>>, <<11298, <<11298>>, <<11346>>>>,
       <<11299, <<11299>>, <<11347>>>>, <<11300, <<11300>>, <<11348>>>>,
       <<11301, <<11301>>, <<11349>>>>, <<11302, <<11302>>, <<11350>>>>,
       <<11303, <<11303>>, <<11351>>>>, <<11304, <<11304>>, <<11352>>>>,
       <<11305, <<11305>>, <<11353>>>>, <<11306, <<11306>>, <<11354>>>>,
       <<11307, <<11307>>, <<11355>>>>, <<11308, <<11308>>, <<11356>>>>,
       <<11309, <<11309>>, <<11357>>>>, <<11310, <<11310>>, <<11358>>>>,
       <<11311, <<11311>>, <<11359>>>>, <<11312, <<11264>>, <<11312>>>>,
       <<11313, <<11265>>, <<11313>>>>, <<11314, <<11266>>, <<11314>>>>,
       <<11315, <<11267>>, <<11315>>>>, <<11316, <<11268>>, <<11316>>>>,
       <<11317, <<11269>>, <<11317>>>>, <<11318, <<11270>>, <<11318>>>>,
       <<11319, <<11271>>, <<11319>>>>, <<11320, <<11272>>, <<11320>>>>,
       <<11321, <<11273>>, <<11321>>>>, <<11322, <<11274>>, <<11322>>>>,
       <<11323, <<11275>>, <<11323>>>>, <<11324, <<11276>>, <<11324>>>>,
       <<11325, <<11277>>, <<11325>>>>, <<11326, <<11278>>, <<11326>>>>,
       <<11327, <<11279>>, <<11327>>>>, <<11328, <<11280>>, <<11328>>>>,
       <<11329, <<11281>>, <<11329>>>>, <<11330, <<11282>>, <<11330>>>>,
       <<11331, <<11283>>, <<11331>>>>, <<11332, <<11284>>, <<11332>>>>,
       <<11333, <<11285>>, <<11333>>>>, <<11334, <<11286>>, <<11334>>>>,
       <<11335, <<11287>>, <<11335>>>>, <<11336, <<11288>>, <<11336>>>>,
       <<11337, <<11289>>, <<11337>>>>, <<11338, <<11290>>, <<11338>>>>,
       <<11339, <<11291>>, <<11339>>>>, <<11340, <<11292>>, <<11340>>>>,
       <<11341, <<11293>>, <<11341>>>>, <<11342, <<11294>>, <<11342>>>>,
       <<11343, <<11295>>, <<11343>>>>, <<11344, <<11296>>, <<11344>>>>,
       <<11345, <<11297>>, <<11345>>>>, <<11346, <<11298>>, <<11346>>>>,
       <<11347, <<11299>>, <<11347>>>>, <<11348, <<11300>>, <<11348>>>>,
       <<11349, <<11301>>, <<11349>>>>, <<11350, <<11302>>, <<11350>>>>,
       <<11351, <<11303>>, <<11351>>>>, <<11352, <<11304>>, <<11352>>>>,
       <<11353, <<11305>>, <<11353>>>>, <<11354, <<11306>>, <<11354>>>>,
       <<11355, <<11307>>, <<11355>>>>, <<11356, <<11308>>, <<11356>>>>,
       <<11357, <<11309>>, <<11357>>>>, <<11358, <<11310>>, <<11358>>>>,
       <<11359, <<11311>>, <<11359>>>>, <<11360, <<11360>>, <<11361>>>>,
       <<11361, <<11360>>, <<11361>>>>, <<11362, <<11362>>, <<619>>>>,
       <<11363, <<11363>>, <<7549>>>>, <<11364, <<11364>>, <<637>>>>,
       <<11365, <<570>>, <<11365>>>>, <<11366, <<574>>, <<11366>>>>,
       <<11367, <<11367>>, <<11368>>>>, <<11368, <<11367>>, <<11368>>>>,
       <<11369, <<11369>>, <<11370>>>>, <<11370, <<11369>>, <<11370>>>>,
       <<11371, <<11371>>, <<11372>>>>, <<11372, <<11371>>, <<11372>>>>,
       <<11373, <<11373>>, <<593>>>>, <<11374, <<11374>>, <<625>>>>,
       <<11375, <<11375>>, <<592>>>>, <<11376, <<11376>>, <<594>>>>,
       <<11378, <<11378>>, <<11379>>>>, <<11379, <<11378>>, <<11379>>>>,
       <<11381, <<11381>>, <<11382>>>>, <<11382, <<11381>>, <<11382>>>>,
       <<11390, <<11390>>, <<575>>>>, <<11391, <<11391>>, <<576>>>>,
       <<11392, <<11392>>, <<11393>>>>, <<11393, <<11392>>, <<11393>>>>,
       <<11394, <<11394>>, <<11395>>>>, <<11395, <<11394>>, <<11395>>>>,
       <<11396, <<11396>>, <<11397>>>>, <<11397, <<11396>>, <<11397>>>>,
       <<11398, <<11398>>, <<11399>>>>, <<11399, <<11398>>, <<11399>>>>,
       <<11400, <<11400>>, <<11401>>>>, <<11401, <<11400>>, <<11401>>>>,
       <<11402, <<11402>>, <<11403>>>>, <<11403, <<11402>>, <<11403>>>>,
       <<11404, <<11404>>, <<11405>>>>, <<11405, <<11404>>, <<11405>>>>,
       <<11406, <<11406>>, <<11407>>>>, <<11407, <<11406>>, <<11407>>>>,
       <<11408, <<11408>>, <<11409>>>>, <<11409, <<11408>>, <<11409>>>>,
       <<11410, <<11410>>, <<11411>>>>, <<11411, <<11410>>, <<11411>>>>,
       <<11412, <<11412>>, <<11413>>>>, <<11413, <<11412>>, <<11413>>>>,
       <<11414, <<11414>>, <<11415>>>>, <<11415, <<11414>>, <<11415>>>>,
       <<11416, <<11416>>, <<11417>>>>, <<11417, <<11416>>, <<11417>>>>,
       <<11418, <<11418>>, <<11419>>>>, <<11419, <<11418>>, <<11419>>>>,
       <<11420, <<11420>>, <<11421>>>>, <<11421, <<11420>>, <<11421>>>>,
       <<11422, <<11422>>, <<11423>>>>, <<11423, <<11422>>, <<11423>>>>,
       <<11424, <<11424>>, <<11425>>>>, <<11425, <<11424>>, <<11425>>>>,
       <<11426, <<11426>>, <<11427>>>>, <<11427, <<11426>>, <<11427>>>>,
       <<11428, <<11428>>, <<11429>>>>, <<11429, <<11428>>, <<11429>>>>,
       <<11430, <<11430>>, <<11431>>>>, <<11431, <<11430>>, <<11431>>>>,
       <<11432, <<11432>>, <<11433>>>>, <<11433, <<11432>>, <<11433>>>>,
       <<11434, <<11434>>, <<11435>>>>, <<11435, <<11434>>, <<11435>>>>,
       <<11436, <<11436>>, <<11437>>>>, <<11437, <<11436>>, <<11437>>>>,
       <<11438, <<11438>>, <<11439>>>>, <<11439, <<11438>>, <<11439>>>>,
       <<11440, <<11440>>, <<11441>>>>, <<11441, <<11440>>, <<11441>>>>,
       <<11442, <<11442>>, <<11443>>>>, <<11443, <<11442>>, <<11443>>>>,
       <<11444, <<11444>>, <<11445>>>>, <<11445, <<11444>>, <<11445>>>>,
       <<11446, <<11446>>, <<11447>>>>, <<11447, <<11446>>, <<11447>>>>,
       <<11448, <<11448>>, <<11449>>>>, <<11449, <<11448>>, <<11449>>>>,
       <<11450, <<11450>>, <<11451>>>>, <<11451, <<11450>>, <<11451>>>>,
       <<11452, <<11452>>, <<11453>>>>, <<11453, <<11452>>, <<11453>>>>,
       <<11454, <<11454>>, <<11455>>>>, <<11455, <<11454>>, <<11455>>>>,
       <<11456, <<11456>>, <<11457>>>>, <<11457, <<11456>>, <<11457>>>>,
       <<11458, <<11458>>, <<11459>>>>, <<11459, <<11458>>, <<11459>>>>,
       <<11460, <<11460>>, <<11461>>>>, <<11461, <<11460>>, <<11461>>>>,
       <<11462, <<11462>>, <<11463>>>>, <<11463, <<11462>>, <<11463>>>>,
       <<11464, <<11464>>, <<11465>>>>, <<11465, <<11464>>, <<11465>>>>,
       <<11466, <<11466>>, <<11467>>>>, <<11467, <<11466>>, <<11467>>>>,
       <<11468, <<11468>>, <<11469>>>>, <<11469, <<11468>>, <<11469>>>>,
       <<11470, <<11470>>, <<11471>>>>, <<11471, <<11470>>, <<11471>>>>,
       <<11472, <<11472>>, <<11473>>>>, <<11473, <<11472>>, <<11473>>>>,
       <<11474, <<11474>>, <<11475>>>>, <<11475, <<11474>>, <<11475>>>>,
       <<11476, <<11476>>, <<11477>>>>, <<11477, <<11476>>, <<11477>>>>,
       <<11478, <<11478>>, <<11479>>>>, <<11479, <<11478>>, <<11479>>>>,
       <<11480, <<11480>>, <<11481>>>>, <<11481, <<11480>>, <<11481>>>>,
       <<11482, <<11482>>, <<11483>>>>, <<11483, <<11482>>, <<11483>>>>,
       <<11484, <<11484>>, <<11485>>>>, <<11485, <<11484>>, <<11485>>>>,
       <<11486, <<11486>>, <<11487>>>>, <<11487, <<11486>>, <<11487>>>>,
       <<11488, <<11488>>, <<11489>>>>, <<11489, <<11488>>, <<11489>>>>,
       <<11490, <<11490>>, <<11491>>>>, <<11491, <<11490>>, <<11491>>>>,
       <<11499, <<11499>>, <<11500>>>>, <<11500, <<11499>>, <<11500>>>>,
       <<11501, <<11501>>, <<11502>>>>, <<11502, <<11501>>, <<11502>>>>,
       <<11506, <<11506>>, <<11507>>>>, <<11507, <<11506>>, <<11507>>>>,
       <<11520, <<4256>>, <<11520>>>>, <<11521, <<4257>>, <<11521>>>>,
       <<11522, <<4258>>, <<11522>>>>, <<11523, <<4259>>, <<11523>>>>,
       <<11524, <<4260>>, <<11524>>>>, <<11525, <<4261>>, <<11525>>>>,
       <<11526, <<4262>>, <<11526>>>>, <<11527, <<4263>>, <<11527>>>>,
       <<11528, <<4264>>, <<11528>>>>, <<11529, <<4265>>, <<11529>>>>,
       <<11530, <<4266>>, <<11530>>>>, <<11531, <<4267>>, <<11531>>>>,
       <<11532, <<4268>>, <<11532>>>>, <<11533, <<4269>>, <<11533>>>>,
       <<11534, <<4270>>, <<11534>>>>, <<11535, <<4271>>, <<11535>>>>,
       <<11536, <<4272>>, <<11536>>>>, <<11537, <<4273>>, <<11537>>>>,
       <<11538, <<4274>>, <<11538>>>>, <<11539, <<4275>>, <<11539>>>>,
       <<11540, <<4276>>, <<11540>>>>, <<11541, <<4277>>, <<11541>>>>,
       <<11542, <<4278>>, <<11542>>>>, <<11543, <<4279>>, <<11543>>>>,
       <<11544, <<4280>>, <<11544>>>>, <<11545, <<4281>>, <<11545>>>>,
       <<11546, <<4282>>, <<11546>>>>, <<11547, <<4283>>, <<11547>>>>,
       <<11548, <<4284>>, <<11548>>>>, <<11549, <<4285>>, <<11549>>>>,
       <<11550, <<4286>>, <<11550>>>>, <<11551, <<4287>>, <<11551>>>>,
       <<11552, <<4288>>, <<11552>>>>, <<11553, <<4289>>, <<11553>>>>,
       <<11554, <<4290>>, <<11554>>>>, <<11555, <<4291>>, <<11555>>>>,
       <<11556, <<4292>>, <<11556>>>>, <<11557, <<4293>>, <<11557>>>>,
       <<11559, <<4295>>, <<11559>>>>, <<11565, <<4301>>, <<11565>>>>,
       <<42560, <<42560>>, <<42561>>>>, <<42561, <<42560>>, <<42561>>>>,
       <<42562, <<42562>>, <<42563>>>>, <<42563, <<42562>>, <<42563>>>>,
       <<42564, <<42564>>, <<42565>>>>, <<42565, <<42564>>, <<42565>>>>,
       <<42566, <<42566>>, <<42567>>>>, <<42567, <<42566>>, <<42567>>>>,
       <<42568, <<42568>>, <<42569>>>>, <<42569, <<42568>>, <<42569>>>>,
       <<42570, <<42570>>, <<42571>>>>, <<42571, <<42570>>, <<42571>>>>,
       <<42572, <<42572>>, <<42573>>>>, <<42573, <<42572>>, <<42573>>>>,
       <<42574, <<42574>>, <<42575>>>>, <<42575, <<42574>>, <<42575>>>>,
       <<42576, <<42576>>, <<42577>>>>, <<42577, <<42576>>, <<42577>>>>,
       <<42578, <<42578>>, <<42579>>>>, <<42579, <<42578>>, <<42579>>>>,
       <<42580, <<42580>>, <<42581>>>>, <<42581, <<42580>>, <<42581>>>>,
       <<42582, <<42582>>, <<42583>>>>, <<42583, <<42582>>, <<42583>>>>,
       <<42584, <<42584>>, <<42585>>>>, <<42585, <<42584>>, <<42585>>>>,
       <<42586, <<42586>>, <<42587>>>>, <<42587, <<42586>>, <<42587>>>>,
       <<42588, <<42588>>, <<42589>>>>, <<42589, <<42588>>, <<42589>>>>,
       <<42590, <<42590>>, <<42591>>>>, <<42591, <<42590>>, <<42591>>>>,
       <<42592, <<42592>>, <<42593>>>>, <<42593, <<42592>>, <<42593>>>>,
       <<42594, <<42594>>, <<42595>>>>, <<42595, <<42594>>, <<42595>>>>,
       <<42596, <<42596>>, <<42597>>>>, <<42597, <<42596>>, <<42597>>>>,
       <<42598, <<42598>>, <<42599>>>>, <<42599, <<42598>>, <<42599>>>>,
       <<42600, <<42600>>, <<42601>>>>, <<42601, <<42600>>, <<42601>>>>,
       <<42602, <<42602>>, <<42603>>>>, <<42603, <<42602>>, <<42603>>>>,
       <<42604, <<42604>>, <<42605>>>>, <<42605, <<42604>>, <<42605>>>>,
       <<42624, <<42624>>, <<42625>>>>, <<42625, <<42624>>, <<42625>>>>,
       <<42626, <<42626>>, <<42627>>>>, <<42627, <<42626>>, <<42627>>>>,
       <<42628, <<42628>>, <<42629>>>>, <<42629, <<42628>>, <<42629>>>>,
       <<42630, <<42630>>, <<42631>>>>, <<42631, <<42630>>, <<42631>>>>,
       <<42632, <<42632>>, <<42633>>>>, <<42633, <<42632>>, <<42633>>>>,
       <<42634, <<42634>>, <<42635>>>>, <<42635, <<42634>>, <<42635>>>>,
       <<42636, <<42636>>, <<42637>>>>, <<42637, <<42636>>, <<42637>>>>,
       <<42638, <<42638>>, <<42639>>>>, <<42639, <<42638>>, <<42639>>>>,
       <<42640, <<42640>>, <<42641>>>>, <<42641, <<42640>>, <<42641>>>>,
       <<42642, <<42642>>, <<42643>>>>, <<42643, <<42642>>, <<42643>>>>,
       <<42644, <<42644>>, <<42645>>>>, <<42645, <<42644>>, <<42645>>>>,
       <<42646, <<42646>>, <<42647>>>>, <<42647, <<42646>>, <<42647>>>>,
       <<42648, <<42648>>, <<42649>>>>, <<42649, <<42648>>, <<42649>>>>,
       <<42650, <<42650>>, <<42651>>>>, <<42651, <<42650>>, <<42651>>>>,
       <<42786, <<42786>>, <<42787>>>>, <<42787, <<42786>>, <<42787>>>>,
       <<42788, <<42788>>, <<42789>>>>, <<42789, <<42788>>, <<42789>>>>,
       <<42790, <<42790>>, <<42791>>>>, <<42791, <<42790>>, <<42791>>>>,
       <<42792, <<42792>>, <<42793>>>>, <<42793, <<42792>>, <<42793>>>>,
       <<42794, <<42794>>, <<42795>>>>, <<42795, <<42794>>, <<42795>>>>,
       <<42796, <<42796>>, <<42797>>>>, <<42797, <<42796>>, <<42797>>>>,
       <<42798, <<42798>>, <<42799>>>>, <<42799, <<42798>>, <<42799>>>>,
       <<42802, <<42802>>, <<42803>>>>, <<42803, <<42802>>, <<42803>>>>,
       <<42804, <<42804>>, <<42805>>>>, <<42805, <<42804>>, <<42805>>>>,
       <<42806, <<42806>>, <<42807>>>>, <<42807, <<42806>>, <<42807>>>>,
       <<42808, <<42808>>, <<42809>>>>, <<42809, <<42808>>, <<42809>>>>,
       <<42810, <<42810>>, <<42811>>>>, <<42811, <<42810>>, <<42811>>>>,
       <<42812, <<42812>>, <<42813>>>>, <<42813, <<42812>>, <<42813>>>>,
       <<42814, <<42814>>, <<42815>>>>, <<42815, <<42814>>, <<42815>>>>,
       <<42816, <<42816>>, <<42817>>>>, <<42817, <<42816>>, <<42817>>>>,
       <<42818, <<42818>>, <<42819>>>>, <<42819, <<42818>>, <<42819>>>>,
       <<42820, <<42820>>, <<42821>>>>, <<42821, <<42820>>, <<42821>>>>,
       <<42822, <<42822>>, <<42823>>>>, <<42823, <<42822>>, <<42823>>>>,
       <<42824, <<42824>>, <<42825>>>>, <<42825, <<42824>>, <<42825>>>>,
       <<42826, <<42826>>, <<42827>>>>, <<42827, <<42826>>, <<42827>>>>,
       <<42828, <<42828>>, <<42829>>>>, <<42829, <<42828>>, <<42829>>>>,
       <<42830, <<42830>>, <<42831>>>>, <<42831, <<42830>>, <<42831>>>>,
       <<42832, <<42832>>, <<42833>>>>, <<42833, <<42832>>, <<42833>>>>,
       <<42834, <<42834>>, <<42835>>>>, <<42835, <<42834>>, <<42835>>>>,
       <<42836, <<42836>>, <<42837>>>>, <<42837, <<42836>>, <<42837>>>>,
       <<42838, <<42838>>, <<42839>>>>, <<42839, <<42838>>, <<42839>>>>,
       <<42840, <<42840>>, <<42841>>>>, <<42841, <<42840>>, <<42841>>>>,
       <<42842, <<42842>>, <<42843>>>>, <<42843, <<42842>>, <<42843>>>>,
       <<42844, <<42844>>, <<42845>>>>, <<42845, <<42844>>, <<42845>>>>,
       <<42846, <<42846>>, <<42847>>>>, <<42847, <<42846>>, <<42847>>>>,
       <<42848, <<42848>>, <<42849>>>>, <<42849, <<42848>>, <<42849>>>>,
       <<42850, <<42850>>, <<42851>>>>, <<42851, <<42850>>, <<42851>>>>,
       <<42852, <<42852>>, <<42853>>>>, <<42853, <<42852>>, <<42853>>>>,
       <<42854, <<42854>>, <<42855>>>>, <<42855, <<42854>>, <<42855>>>>,
       <<42856, <<42856>>, <<42857>>>>, <<42857, <<42856>>, <<42857>>>>,
       <<42858, <<42858>>, <<42859>>>>, <<42859, <<42858>>, <<42859>>>>,
       <<42860, <<42860>>, <<42861>>>>, <<42861, <<42860>>, <<42861>>>>,
       <<42862, <<42862>>, <<42863>>>>, <<42863, <<42862>>, <<42863>>>>,
       <<42873, <<42873>>, <<42874>>>>, <<42874, <<42873>>, <<42874>>>>,
       <<42875, <<42875>>, <<42876>>>>, <<42876, <<42875>>, <<42876>>>>,
       <<42877, <<42877>>, <<7545>>>>, <<42878, <<42878>>, <<42879>>>>,
       <<42879, <<42878>>, <<42879>>>>, <<42880, <<42880>>, <<42881>>>>,
       <<42881, <<42880>>, <<42881>>>>, <<42882, <<42882>>, <<42883>>>>,
       <<42883, <<42882>>, <<42883>>>>, <<42884, <<42884>>, <<42885>>>>,
       <<42885, <<42884>>, <<42885>>>>, <<42886, <<42886>>, <<42887>>>>,
       <<42887, <<42886>>, <<42887>>>>, <<42891, <<42891>>, <<42892>>>>,
       <<42892, <<42891>>, <<42892>>>>, <<42893, <<42893>>, <<613>>>>,
       <<42896, <<42896>>, <<42897>>>>, <<42897, <<42896>>, <<42897>>>>,
       <<42898, <<42898>>, <<42899>>>>, <<42899, <<42898>>, <<42899>>>>,
       <<42900, <<42948>>, <<42900>>>>, <<42902, <<42902>>, <<42903>>>>,
       <<42903, <<42902>>, <<42903>>>>, <<42904, <<42904>>, <<42905>>>>,
       <<42905, <<42904>>, <<42905>>>>, <<42906, <<42906>>, <<42907>>>>,
       <<42907, <<42906>>, <<42907>>>>, <<42908, <<42908>>, <<42909>>>>,
       <<42909, <<42908>>, <<42909>>>>, <<42910, <<42910>>, <<42911>>>>,
       <<42911, <<42910>>, <<42911>>>>, <<42912, <<42912>>, <<42913>>>>,
       <<42913, <<42912>>, <<42913>>>>, <<42914, <<42914>>, <<42915>>>>,
       <<42915, <<42914>>, <<42915>>>>, <<42916, <<42916>>, <<42917>>>>,
       <<42917, <<42916>>, <<42917>>>>, <<42918, <<42918>>, <<42919>>>>,
       <<42919, <<42918>>, <<42919>>>>, <<42920, <<42920>>, <<42921>>>>,
       <<42921, <<42920>>, <<42921>>>>, <<42922, <<42922>>, <<614>>>>,
       <<42923, <<42923>>, <<604>>>>, <<42924, <<42924>>, <<609>>>>,
       <<42925, <<42925>>, <<620>>>>, <<42926, <<42926>>, <<618>>>>,
       <<42928, <<42928>>, <<670>>>>, <<42929, <<42929>>, <<647>>>>,
       <<42930, <<42930>>, <<669>>>>, <<42931, <<42931>>, <<43859>>>>,
       <<42932, <<42932>>, <<42933>>>>, <<42933, <<42932>>, <<42933>>>>,
       <<42934, <<42934>>, <<42935>>>>, <<42935, <<42934>>, <<42935>>>>,
       <<42936, <<42936>>, <<42937>>>>, <<42937, <<42936>>, <<42937>>>>,
       <<42938, <<42938>>, <<42939>>>>, <<42939, <<42938>>, <<42939>>>>,
       <<42940, <<42940>>, <<42941>>>>, <<42941, <<42940>>, <<42941>>>>,
       <<42942, <<42942>>, <<42943>>>>, <<42943, <<42942>>, <<42943>>>>,
       <<42944, <<42944>>, <<42945>>>>, <<42945, <<42944>>, <<42945>>>>,
       <<42946, <<42946>>, <<42947>>>>, <<42947, <<42946>>, <<42947>>>>,
       <<42948, <<42948>>, <<42900>>>>, <<42949, <<42949>>, <<642>>>>,
       <<42950, <<42950>>, <<7566>>>>, <<42951, <<42951>>, <<42952>>>>,
       <<42952, <<42951>>, <<42952>>>>, <<42953, <<42953>>, <<42954>>>>,
       <<42954, <<42953>>, <<42954>>>>, <<42960, <<42960>>, <<42961>>>>,
       <<42961, <<42960>>, <<42961>>>>, <<42966, <<42966>>, <<42967>>>>,
       <<42967, <<42966>>, <<42967>>>>, <<42968, <<42968>>, <<42969>>>>,
       <<42969, <<42968>>, <<42969>>>>, <<42997, <<42997>>, <<42998>>>>,
       <<42998, <<42997>>, <<42998>>>>, <<43859, <<42931>>, <<43859>>>>,
       <<43888, <<5024>>, <<43888>>>>, <<43889, <<5025>>, <<43889>>>>,
       <<43890, <<5026>>, <<43890>>>>, <<43891, <<5027>>, <<43891>>>>,
       <<43892, <<5028>>, <<43892>>>>, <<43893, <<5029>>, <<43893>>>>,
       <<43894, <<5030>>, <<43894>>>>, <<43895, <<5031>>, <<43895>>>>,
       <<43896, <<5032>>, <<43896>>>>, <<43897, <<5033>>, <<43897>>>>,
       <<43898, <<5034>>, <<43898>>>>, <<43899, <<5035>>, <<43899>>>>,
       <<43900, <<5036>>, <<43900>>>>, <<43901, <<5037>>, <<43901>>>>,
       <<43902, <<5038>>, <<43902>>>>, <<43903, <<5039>>, <<43903>>>>,
       <<43904, <<5040>>, <<43904>>>>, <<43905, <<5041>>, <<43905>>>>,
       <<43906, <<5042>>, <<43906>>>>, <<43907, <<5043>>, <<43907>>>>,
       <<43908, <<5044>>, <<43908>>>>, <<43909, <<5045>>, <<43909>>>>,
       <<43910, <<5046>>, <<43910>>>>, <<43911, <<5047>>, <<43911>>>>,
       <<43912, <<5048>>, <<43912>>>>, <<43913, <<5049>>, <<43913>>>>,
       <<43914, <<5050>>, <<43914>>>>, <<43915, <<5051>>, <<43915>>>>,
       <<43916, <<5052>>, <<43916>>>>, <<43917, <<5053>>, <<43917>>>>,
       <<43918, <<5054>>, <<43918>>>>, <<43919, <<5055>>, <<43919>>>>,
       <<43920, <<5056>>, <<43920>>>>, <<43921, <<5057>>, <<43921>>>>,
       <<43922, <<5058>>, <<43922>>>>, <<43923, <<5059>>, <<43923>>>>,
       <<43924, <<5060>>, <<43924>>>>, <<43925, <<5061>>, <<43925>>>>,
       <<43926, <<5062>>, <<43926>>>>, <<43927, <<5063>>, <<43927>>>>,
       <<43928, <<5064>>, <<43928>>>>, <<43929, <<5065>>, <<43929>>>>,
       <<43930, <<5066>>, <<43930>>>>, <<43931, <<5067>>, <<43931>>>>,
       <<43932, <<5068>>, <<43932>>>>, <<43933, <<5069>>, <<43933>>>>,
       <<43934, <<5070>>, <<43934>>>>, <<43935, <<5071>>, <<43935>>>>,
       <<43936, <<5072>>, <<43936>>>>, <<43937, <<5073>>, <<43937>>>>,
       <<43938, <<5074>>, <<43938>>>>, <<43939, <<5075>>, <<43939>>>>,
       <<43940, <<5076>>, <<43940>>>>, <<43941, <<5077>>, <<43941>>>>,
       <<43942, <<5078>>, <<43942>>>>, <<43943, <<5079>>, <<43943>>>>,
       <<43944, <<5080>>, <<43944>>>>, <<43945, <<5081>>, <<43945>>>>,
       <<43946, <<5082>>, <<43946>>>>, <<43947, <<5083>>, <<43947>>>>,
       <<43948, <<5084>>, <<43948>>>>, <<43949, <<5085>>, <<43949>>>>,
       <<43950, <<5086>>, <<43950>>>>, <<43951, <<5087>>, <<43951>>>>,
       <<43952, <<5088>>, <<43952>>>>, <<43953, <<5089>>, <<43953>>>>,
       <<43954, <<5090>>, <<43954>>>>, <<43955, <<5091>>, <<43955>>>>,
       <<43956, <<5092>>, <<43956>>>>, <<43957, <<5093>>, <<43957>>>>,
       <<43958, <<5094>>, <<43958>>>>, <<43959, <<5095>>, <<43959>>>>,
       <<43960, <<5096>>, <<43960>>>>, <<43961, <<5097>>, <<43961>>>>,
       <<43962, <<5098>>, <<43962>>>>, <<43963, <<5099>>, <<43963>>>>,
       <<43964, <<5100>>, <<43964>>>>, <<43965, <<5101>>, <<43965>>>>,
       <<43966, <<5102>>, <<43966>>>>, <<43967, <<5103>>, <<43967>>>>,
       <<64256, <<70, 70>>, <<64256>>>>, <<64257, <<70, 73>>, <<64257>>>>,
       <<64258, <<70, 76>>, <<64258>>>>,
       <<64259, <<70, 70, 73>>, <<64259>>>>,
       <<64260, <<70, 70, 76>>, <<64260>>>>,
       <<64261, <<83, 84>>, <<64261>>>>, <<64262, <<83, 84>>, <<64262>>>>,
       <<64275, <<1348, 1350>>, <<64275>>>>,
       <<64276, <<1348, 1333>>, <<64276>>>>,
       <<64277, <<1348, 1339>>, <<64277>>>>,
       <<64278, <<1358, 1350>>, <<64278>>>>,
       <<64279, <<1348, 1341>>, <<64279>>>>, <<65313, <<65313>>, <<65345>>>>,
       <<65314, <<65314>>, <<65346>>>>, <<65315, <<65315>>, <<65347>>>>,
       <<65316, <<65316>>, <<65348>>>>, <<65317, <<65317>>, <<65349>>>>,
       <<65318, <<65318>>, <<65350>>>>, <<65319, <<65319>>, <<65351>>>>,
       <<65320, <<65320>>, <<65352>>>>, <<65321, <<65321>>, <<65353>>>>,
       <<65322, <<65322>>, <<65354>>>>, <<65323, <<65323>>, <<65355>>>>,
       <<65324, <<65324>>, <<65356>>>>, <<65325, <<65325>>, <<65357>>>>,
       <<65326, <<65326>>, <<65358>>>>, <<65327, <<65327>>, <<65359>>>>,
       <<65328, <<65328>>, <<65360>>>>, <<65329, <<65329>>, <<65361>>>>,
       <<65330, <<65330>>, <<65362>>>>, <<65331, <<65331>>, <<65363>>>>,
       <<65332, <<65332>>, <<65364>>>>, <<65333, <<65333>>, <<65365>>>>,
       <<65334, <<65334>>, <<65366>>>>, <<65335, <<65335>>, <<65367>>>>,
       <<65336, <<65336>>, <<65368>>>>, <<65337, <<65337>>, <<65369>>>>,
       <<65338, <<65338>>, <<65370>>>>, <<65345, <<65313>>, <<65345>>>>,
       <<65346, <<65314>>, <<65346>>>>, <<65347, <<65315>>, <<65347>>>>,
       <<65348, <<65316>>, <<65348>>>>, <<65349, <<65317>>, <<65349>>>>,
       <<65350, <<65318>>, <<65350>>>>, <<65351, <<65319>>, <<65351>>>>,
       <<65352, <<65320>>, <<65352>>>>, <<65353, <<65321>>, <<65353>>>>,
       <<65354, <<65322>>, <<65354>>>>, <<65355, <<65323>>, <<65355>>>>,
       <<65356, <<65324>>, <<65356>>>>, <<65357, <<65325>>, <<65357>>>>,
       <<65358, <<65326>>, <<65358>>>>, <<65359, <<65327>>, <<65359>>>>,
       <<65360, <<65328>>, <<65360>>>>, <<65361, <<65329>>, <<65361>>>>,
       <<65362, <<65330>>, <<65362>>>>, <<65363, <<65331>>, <<65363>>>>,
       <<65364, <<65332>>, <<65364>>>>, <<65365, <<65333>>, <<65365>>>>,
       <<65366, <<65334>>, <<65366>>>>, <<65367, <<65335>>, <<65367>>>>,
       <<65368, <<65336>>, <<65368>>>>, <<65369, <<65337>>, <<65369>>>>,
       <<65370, <<65338>>, <<65370>>>>, <<66560, <<66560>>, <<66600>>>>,
       <<66561, <<66561>>, <<66601>>>>, <<66562, <<66562>>, <<66602>>>>,
       <<66563, <<66563>>, <<66603>>>>, <<66564, <<66564>>, <<66604>>>>,
       <<66565, <<66565>>, <<66605>>>>, <<66566, <<66566>>, <<66606>>>>,
       <<66567, <<66567>>, <<66607>>>>, <<66568, <<66568>>, <<66608>>>>,
       <<66569, <<66569>>, <<66609>>>>, <<66570, <<66570>>, <<66610>>>>,
       <<66571, <<66571>>, <<66611>>>>, <<66572, <<66572>>, <<66612>>>>,
       <<66573, <<66573>>, <<66613>>>>, <<66574, <<66574>>, <<66614>>>>,
       <<66575, <<66575>>, <<66615>>>>, <<66576, <<66576>>, <<66616>>>>,
       <<66577, <<66577>>, <<66617>>>>, <<66578, <<66578>>, <<66618>>>>,
       <<66579, <<66579>>, <<66619>>>>, <<66580, <<66580>>, <<66620>>>>,
       <<66581, <<66581>>, <<66621>>>>, <<66582, <<66582>>, <<66622>>>>,
       <<66583, <<66583>>, <<66623>>>>, <<66584, <<66584>>, <<66624>>>>,
       <<66585, <<66585>>, <<66625>>>>, <<66586, <<66586>>, <<66626>>>>,
       <<66587, <<66587>>, <<66627>>>>, <<66588, <<66588>>, <<66628>>>>,
       <<66589, <<66589>>, <<66629>>>>, <<66590, <<66590>>, <<66630>>>>,
       <<66591, <<66591>>, <<66631>>>>, <<66592, <<66592>>, <<66632>>>>,
       <<66593, <<66593>>, <<66633>>>>, <<66594, <<66594>>, <<66634>>>>,
       <<66595, <<66595>>, <<66635>>>>, <<66596, <<66596>>, <<66636>>>>,
       <<66597, <<66597>>, <<66637>>>>, <<66598, <<66598>>, <<66638>>>>,
       <<66599, <<66599>>, <<66639>>>>, <<66600, <<66560>>, <<66600>>>>,
       <<66601, <<66561>>, <<66601>>>>, <<66602, <<66562>>, <<66602>>>>,
       <<66603, <<66563>>, <<66603>>>>, <<66604, <<66564>>, <<66604>>>>,
       <<66605, <<66565>>, <<66605>>>>, <<66606, <<66566>>, <<66606>>>>,
       <<66607, <<66567>>, <<66607>>>>, <<66608, <<66568>>, <<66608>>>>,
       <<66609, <<66569>>, <<66609>>>>, <<66610, <<66570>>, <<66610>>>>,
       <<66611, <<66571>>, <<66611>>>>, <<66612, <<66572>>, <<66612>>>>,
       <<66613, <<66573>>, <<66613>>>>, <<66614, <<66574>>, <<66614>>>>,
       <<66615, <<66575>>, <<66615>>>>, <<66616, <<66576>>, <<66616>>>>,
       <<66617, <<66577>>, <<66617>>>>, <<66618, <<66578>>, <<66618>>>>,
       <<66619, <<66579>>, <<66619>>>>, <<66620, <<66580>>, <<66620>>>>,
       <<66621, <<66581>>, <<66621>>>>, <<66622, <<66582>>, <<66622>>>>,
       <<66623, <<66583>>, <<66623>>>>, <<66624, <<66584>>, <<66624>>>>,
       <<66625, <<66585>>, <<66625>>>>, <<66626, <<66586>>, <<66626>>>>,
       <<66627, <<66587>>, <<66627>>>>, <<66628, <<66588>>, <<66628>>>>,
       <<66629, <<66589>>, <<66629>>>>, <<66630, <<66590>>, <<66630>>>>,
       <<66631, <<66591>>, <<66631>>>>, <<66632, <<66592>>, <<66632>>>>,
       <<66633, <<66593>>, <<66633>>>>, <<66634, <<66594>>, <<66634>>>>,
       <<66635, <<66595>>, <<66635>>>>, <<66636, <<66596>>, <<66636>>>>,
       <<66637, <<66597>>, <<66637>>>>, <<66638, <<66598>>, <<66638>>>>,
       <<66639, <<66599>>, <<66639>>>>, <<66736, <<66736>>, <<66776>>>>,
       <<66737, <<66737>>, <<66777>>>>, <<66738, <<66738>>, <<66778>>>>,
       <<66739, <<66739>>, <<66779>>>>, <<66740, <<66740>>, <<66780>>>>,
       <<66741, <<66741>>, <<66781>>>>, <<66742, <<66742>>, <<66782>>>>,
       <<66743, <<66743>>, <<66783>>>>, <<66744, <<66744>>, <<66784>>>>,
       <<66745, <<66745>>, <<66785>>>>, <<66746, <<66746>>, <<66786>>>>,
       <<66747, <<66747>>, <<66787>>>>, <<66748, <<66748>>, <<66788>>>>,
       <<66749, <<66749>>, <<66789>>>>, <<66750, <<66750>>, <<66790>>>>,
       <<66751, <<66751>>, <<66791>>>>, <<66752, <<66752>>, <<66792>>>>,
       <<66753, <<66753>>, <<66793>>>>, <<66754, <<66754>>, <<66794>>>>,
       <<66755, <<66755>>, <<66795>>>>, <<66756, <<66756>>, <<66796>>>>,
       <<66757, <<66757>>, <<66797>>>>, <<66758, <<66758>>, <<66798>>>>,
       <<66759, <<66759>>, <<66799>>>>, <<66760, <<66760>>, <<66800>>>>,
       <<66761, <<66761>>, <<66801>>>>, <<66762, <<66762>>, <<66802>>>>,
       <<66763, <<66763>>, <<66803>>>>, <<66764, <<66764>>, <<66804>>>>,
       <<66765, <<66765>>, <<66805>>>>, <<66766, <<66766>>, <<66806>>>>,
       <<66767, <<66767>>, <<66807>>>>, <<66768, <<66768>>, <<66808>>>>,
       <<66769, <<66769>>, <<66809>>>>, <<66770, <<66770>>, <<66810>>>>,
       <<66771, <<66771>>, <<66811>>>>, <<66776, <<66736>>, <<66776>>>>,
       <<66777, <<66737>>, <<66777>>>>, <<66778, <<66738>>, <<66778>>>>,
       <<66779, <<66739>>, <<66779>>>>, <<66780, <<66740>>, <<66780>>>>,
       <<66781, <<66741>>, <<66781>>>>, <<66782, <<66742>>, <<66782>>>>,
       <<66783, <<66743>>, <<66783>>>>, <<66784, <<66744>>, <<66784>>>>,
       <<66785, <<66745>>, <<66785>>>>, <<66786, <<66746>>, <<66786>>>>,
       <<66787, <<66747>>, <<66787>>>>, <<66788, <<66748>>, <<66788>>>>,
       <<66789, <<66749>>, <<66789>>>>, <<66790, <<66750>>, <<66790>>>>,
       <<66791, <<66751>>, <<66791>>>>, <<66792, <<66752>>, <<66792>>>>,
       <<66793, <<66753>>, <<66793>>>>, <<66794, <<66754>>, <<66794>>>>,
       <<66795, <<66755>>, <<66795>>>>, <<66796, <<66756>>, <<66796>>>>,
       <<66797, <<66757>>, <<66797>>>>, <<66798, <<66758>>, <<66798>>>>,
       <<66799, <<66759>>, <<66799>>>>, <<66800, <<66760>>, <<66800>>>>,
       <<66801, <<66761>>, <<66801>>>>, <<66802, <<66762>>, <<66802>>>>,
       <<66803, <<66763>>, <<66803>>>>, <<66804, <<66764>>, <<66804>>>>,
       <<66805, <<66765>>, <<66805>>>>, <<66806, <<66766>>, <<66806>>>>,
       <<66807, <<66767>>, <<66807>>>>, <<66808, <<66768>>, <<66808>>>>,
       <<66809, <<66769>>, <<66809>>>>, <<66810, <<66770>>, <<66810>>>>,
       <<66811, <<66771>>, <<66811>>>>, <<66928, <<66928>>, <<66967>>>>,
       <<66929, <<66929>>, <<66968>>>>, <<66930, <<66930>>, <<66969>>>>,
       <<66931, <<66931>>, <<66970>>>>, <<66932, <<66932>>, <<66971>>>>,
       <<66933, <<66933>>, <<66972>>>>, <<66934, <<66934>>, <<66973>>>>,
       <<66935, <<66935>>, <<66974>>>>, <<66936, <<66936>>, <<66975>>>>,
       <<66937, <<66937>>, <<66976>>>>, <<66938, <<66938>>, <<66977>>>>,
       <<66940, <<66940>>, <<66979>>>>, <<66941, <<66941>>, <<66980>>>>,
       <<66942, <<66942>>, <<66981>>>>, <<66943, <<66943>>, <<66982>>>>,
       <<66944, <<66944>>, <<66983>>>>, <<66945, <<66945>>, <<66984>>>>,
       <<66946, <<66946>>, <<66985>>>>, <<66947, <<66947>>, <<66986>>>>,
       <<66948, <<66948>>, <<66987>>>>, <<66949, <<66949>>, <<66988>>>>,
       <<66950, <<66950>>, <<66989>>>>, <<66951, <<66951>>, <<66990>>>>,
       <<66952, <<66952>>, <<66991>>>>, <<66953, <<66953>>, <<66992>>>>,
       <<66954, <<66954>>, <<66993>>>>, <<66956, <<66956>>, <<66995>>>>,
       <<66957, <<66957>>, <<66996>>>>, <<66958, <<66958>>, <<66997>>>>,
       <<66959, <<66959>>, <<66998>>>>, <<66960, <<66960>>, <<66999>>>>,
       <<66961, <<66961>>, <<67000>>>>, <<66962, <<66962>>, <<67001>>>>,
       <<66964, <<66964>>, <<67003>>>>, <<66965, <<66965>>, <<67004>>>>,
       <<66967, <<66928>>, <<66967>>>>, <<66968, <<66929>>, <<66968>>>>,
       <<66969, <<66930>>, <<66969>>>>, <<66970, <<66931>>, <<66970>>>>,
       <<66971, <<66932>>, <<66971>>>>, <<66972, <<66933>>, <<66972>>>>,
       <<66973, <<66934>>, <<66973>>>>, <<66974, <<66935>>, <<66974>>>>,
       <<66975, <<66936>>, <<66975>>>>, <<66976, <<66937>>, <<66976>>>>,
       <<66977, <<66938>>, <<66977>>>>, <<66979, <<66940>>, <<66979>>>>,
       <<66980, <<66941>>, <<66980>>>>, <<66981, <<66942>>, <<66981>>>>,
       <<66982, <<66943>>, <<66982>>>>, <<66983, <<66944>>, <<66983>>>>,
       <<66984, <<66945>>, <<66984>>>>, <<66985, <<66946>>, <<66985>>>>,
       <<66986, <<66947>>, <<66986>>>>, <<66987, <<66948>>, <<66987>>>>,
       <<66988, <<66949>>, <<66988>>>>, <<66989, <<66950>>, <<66989>>>>,
       <<66990, <<66951>>, <<66990>>>>, <<66991, <<66952>>, <<66991>>>>,
       <<66992, <<66953>>, <<66992>>>>, <<66993, <<66954>>, <<66993>>>>,
       <<66995, <<66956>>, <<66995>>>>, <<66996, <<66957>>, <<66996>>>>,
       <<66997, <<66958>>, <<66997>>>>, <<66998, <<66959>>, <<66998>>>>,
       <<66999, <<66960>>, <<66999>>>>, <<67000, <<66961>>, <<67000>>>>,
       <<67001, <<66962>>, <<67001>>>>, <<67003, <<66964>>, <<67003>>>>,
       <<67004, <<66965>>, <<67004>>>>, <<68736, <<68736>>, <<68800>>>>,
       <<68737, <<68737>>, <<68801>>>>, <<68738, <<68738>>, <<68802>>>>,
       <<68739, <<68739>>, <<68803>>>>, <<68740, <<68740>>, <<68804>>>>,
       <<68741, <<68741>>, <<68805>>>>, <<68742, <<68742>>, <<68806>>>>,
       <<68743, <<68743>>, <<68807>>>>, <<68744, <<68744>>, <<68808>>>>,
       <<68745, <<68745>>, <<68809>>>>, <<68746, <<68746>>, <<68810>>>>,
       <<68747, <<68747>>, <<68811>>>>, <<68748, <<68748>>, <<68812>>>>,
       <<68749, <<68749>>, <<68813>>>>, <<68750, <<68750>>, <<68814>>>>,
       <<68751, <<68751>>, <<68815>>>>, <<68752, <<68752>>, <<68816>>>>,
       <<68753, <<68753>>, <<68817>>>>, <<68754, <<68754>>, <<68818>>>>,
       <<68755, <<68755>>, <<68819>>>>, <<68756, <<68756>>, <<68820>>>>,
       <<68757, <<68757>>, <<68821>>>>, <<68758, <<68758>>, <<68822>>>>,
       <<68759, <<68759>>, <<68823>>>>, <<68760, <<68760>>, <<68824>>>>,
       <<68761, <<68761>>, <<68825>>>>, <<68762, <<68762>>, <<68826>>>>,
       <<68763, <<68763>>, <<68827>>>>, <<68764, <<68764>>, <<68828>>>>,
       <<68765, <<68765>>, <<68829>>>>, <<68766, <<68766>>, <<68830>>>>,
       <<68767, <<68767>>, <<68831>>>>, <<68768, <<68768>>, <<68832>>>>,
       <<68769, <<68769>>, <<68833>>>>, <<68770, <<68770>>, <<68834>>>>,
       <<68771, <<68771>>, <<68835>>>>, <<68772, <<68772>>, <<68836>>>>,
       <<68773, <<68773>>, <<68837>>>>, <<68774, <<68774>>, <<68838>>>>,
       <<68775, <<68775>>, <<68839>>>>, <<68776, <<68776>>, <<68840>>>>,
       <<68777, <<68777>>, <<68841>>>>, <<68778, <<68778>>, <<68842>>>>,
       <<68779, <<68779>>, <<68843>>>>, <<68780, <<68780>>, <<68844>>>>,
       <<68781, <<68781>>, <<68845>>>>, <<68782, <<68782>>, <<68846>>>>,
       <<68783, <<68783>>, <<68847>>>>, <<68784, <<68784>>, <<68848>>>>,
       <<68785, <<68785>>, <<68849>>>>, <<68786, <<68786>>, <<68850>>>>,
       <<68800, <<68736>>, <<68800>>>>, <<68801, <<68737>>, <<68801>>>>,
       <<68802, <<68738>>, <<68802>>>>, <<68803, <<68739>>, <<68803>>>>,
       <<68804, <<68740>>, <<68804>>>>, <<68805, <<68741>>, <<68805>>>>,
       <<68806, <<68742>>, <<68806>>>>, <<68807, <<68743>>, <<68807>>>>,
       <<68808, <<68744>>, <<68808>>>>, <<68809, <<68745>>, <<68809>>>>,
       <<68810, <<68746>>, <<68810>>>>, <<68811, <<68747>>, <<68811>>>>,
       <<68812, <<68748>>, <<68812>>>>, <<68813, <<68749>>, <<68813>>>>,
       <<68814, <<68750>>, <<68814>>>>, <<68815, <<68751>>, <<68815>>>>,
       <<68816, <<68752>>, <<68816>>>>, <<68817, <<68753>>, <<68817>>>>,
       <<68818, <<68754>>, <<68818>>>>, <<68819, <<68755>>, <<68819>>>>,
       <<68820, <<68756>>, <<68820>>>>, <<68821, <<68757>>, <<68821>>>>,
       <<68822, <<68758>>, <<68822>>>>, <<68823, <<68759>>, <<68823>>>>,
       <<68824, <<68760>>, <<68824>>>>, <<68825, <<68761>>, <<68825>>>>,
       <<68826, <<68762>>, <<68826>>>>, <<68827, <<68763>>, <<68827>>>>,
       <<68828, <<68764>>, <<68828>>>>, <<68829, <<68765>>, <<68829>>>>,
       <<68830, <<68766>>, <<68830>>>>, <<68831, <<68767>>, <<68831>>>>,
       <<68832, <<68768>>, <<68832>>>>, <<68833, <<68769>>, <<68833>>>>,
       <<68834, <<68770>>, <<68834>>>>, <<68835, <<68771>>, <<68835>>>>,
       <<68836, <<68772>>, <<68836>>>>, <<68837, <<68773>>, <<68837>>>>,
       <<68838, <<68774>>, <<68838>>>>, <<68839, <<68775>>, <<68839>>>>,
       <<68840, <<68776>>, <<68840>>>>, <<68841, <<68777>>, <<68841>>>>,
       <<68842, <<68778>>, <<68842>>>>, <<68843, <<68779>>, <<68843>>>>,
       <<68844, <<68780>>, <<68844>>>>, <<68845, <<68781>>, <<68845>>>>,
       <<68846, <<68782>>, <<68846>>>>, <<68847, <<68783>>, <<68847>>>>,
       <<68848, <<68784>>, <<68848>>>>, <<68849, <<68785>>, <<68849>>>>,
       <<68850, <<68786>>, <<68850>>>>, <<71840, <<71840>>, <<71872>>>>,
       <<71841, <<71841>>, <<71873>>>>, <<71842, <<71842>>, <<71874>>>>,
       <<71843, <<71843>>, <<71875>>>>, <<71844, <<71844>>, <<71876>>>>,
       <<71845, <<71845>>, <<71877>>>>, <<71846, <<71846>>, <<71878>>>>,
       <<71847, <<71847>>, <<71879>>>>, <<71848, <<71848>>, <<71880>>>>,
       <<71849, <<71849>>, <<71881>>>>, <<71850, <<71850>>, <<71882>>>>,
       <<71851, <<71851>>, <<71883>>>>, <<71852, <<71852>>, <<71884>>>>,
       <<71853, <<71853>>, <<71885>>>>, <<71854, <<71854>>, <<71886>>>>,
       <<71855, <<71855>>, <<71887>>>>, <<71856, <<71856>>, <<71888>>>>,
       <<71857, <<71857>>, <<71889>>>>, <<71858, <<71858>>, <<71890>>>>,
       <<71859, <<71859>>, <<71891>>>>, <<71860, <<71860>>, <<71892>>>>,
       <<71861, <<71861>>, <<71893>>>>, <<71862, <<71862>>, <<71894>>>>,
       <<71863, <<71863>>, <<71895>>>>, <<71864, <<71864>>, <<71896>>>>,
       <<71865, <<71865>>, <<71897>>>>, <<71866, <<71866>>, <<71898>>>>,
       <<71867, <<71867>>, <<71899>>>>, <<71868, <<71868>>, <<71900>>>>,
       <<71869, <<71869>>, <<71901>>>>, <<71870, <<71870>>, <<71902>>>>,
       <<71871, <<71871>>, <<71903>>>>, <<71872, <<71840>>, <<71872>>>>,
       <<71873, <<71841>>, <<71873>>>>, <<71874, <<71842>>, <<71874>>>>,
       <<71875, <<71843>>, <<71875>>>>, <<71876, <<71844>>, <<71876>>>>,
       <<71877, <<71845>>, <<71877>>>>, <<71878, <<71846>>, <<71878>>>>,
       <<71879, <<71847>>, <<71879>>>>, <<71880, <<71848>>, <<71880>>>>,
       <<71881, <<71849>>, <<71881>>>>, <<71882, <<71850>>, <<71882>>>>,
       <<71883, <<71851>>, <<71883>>>>, <<71884, <<71852>>, <<71884>>>>,
       <<71885, <<71853>>, <<71885>>>>, <<71886, <<71854>>, <<71886>>>>,
       <<71887, <<71855>>, <<71887>>>>, <<71888, <<71856>>, <<71888>>>>,
       <<71889, <<71857>>, <<71889>>>>, <<71890, <<71858>>, <<71890>>>>,
       <<71891, <<71859>>, <<71891>>>>, <<71892, <<71860>>, <<71892>>>>,
       <<71893, <<71861>>, <<71893>>>>, <<71894, <<71862>>, <<71894>>>>,
       <<71895, <<71863>>, <<71895>>>>, <<71896, <<71864>>, <<71896>>>>,
       <<71897, <<71865>>, <<71897>>>>, <<71898, <<71866>>, <<71898>>>>,
       <<71899, <<71867>>, <<71899>>>>, <<71900, <<71868>>, <<71900>>>>,
       <<71901, <<71869>>, <<71901>>>>, <<71902, <<71870>>, <<71902>>>>,
       <<71903, <<71871>>, <<71903>>>>, <<93760, <<93760>>, <<93792>>>>,
       <<93761, <<93761>>, <<93793>>>>, <<93762, <<93762>>, <<93794>>>>,
       <<93763, <<93763>>, <<93795>>>>, <<93764, <<93764>>, <<93796>>>>,
       <<93765, <<93765>>, <<93797>>>>, <<93766, <<93766>>, <<93798>>>>,
       <<93767, <<93767>>, <<93799>>>>, <<93768, <<93768>>, <<93800>>>>,
       <<93769, <<93769>>, <<93801>>>>, <<93770, <<93770>>, <<93802>>>>,
       <<93771, <<93771>>, <<93803>>>>, <<93772, <<93772>>, <<93804>>>>,
       <<93773, <<93773>>, <<93805>>>>, <<93774, <<93774>>, <<93806>>>>,
       <<93775, <<93775>>, <<93807>>>>, <<93776, <<93776>>, <<93808>>>>,
       <<93777, <<93777>>, <<93809>>>>, <<93778, <<93778>>, <<93810>>>>,
       <<93779, <<93779>>, <<93811>>>>, <<93780, <<93780>>, <<93812>>>>,
       <<93781, <<93781>>, <<93813>>>>, <<93782, <<93782>>, <<93814>>>>,
       <<93783, <<93783>>, <<93815>>>>, <<93784, <<93784>>, <<93816>>>>,
       <<93785, <<93785>>, <<93817>>>>, <<93786, <<93786>>, <<93818>>>>,
       <<93787, <<93787>>, <<93819>>>>, <<93788, <<93788>>, <<93820>>>>,
       <<93789, <<93789>>, <<93821>>>>, <<93790, <<93790>>, <<93822>>>>,
       <<93791, <<93791>>, <<93823>>>>, <<93792, <<93760>>, <<93792>>>>,
       <<93793, <<93761>>, <<93793>>>>, <<93794, <<93762>>, <<93794>>>>,
       <<93795, <<93763>>, <<93795>>>>, <<93796, <<93764>>, <<93796>>>>,
       <<93797, <<93765>>, <<93797>>>>, <<93798, <<93766>>, <<93798>>>>,
       <<93799, <<93767>>, <<93799>>>>, <<93800, <<93768>>, <<93800>>>>,
       <<93801, <<93769>>, <<93801>>>>, <<93802, <<93770>>, <<93802>>>>,
       <<93803, <<93771>>, <<93803>>>>, <<93804, <<93772>>, <<93804>>>>,
       <<93805, <<93773>>, <<93805>>>>, <<93806, <<93774>>, <<93806>>>>,
       <<93807, <<93775>>, <<93807>>>>, <<93808, <<93776>>, <<93808>>>>,
       <<93809, <<93777>>, <<93809>>>>, <<93810, <<93778>>, <<93810>>>>,
       <<93811, <<93779>>, <<93811>>>>, <<93812, <<93780>>, <<93812>>>>,
       <<93813, <<93781>>, <<93813>>>>, <<93814, <<93782>>, <<93814>>>>,
       <<93815, <<93783>>, <<93815>>>>, <<93816, <<93784>>, <<93816>>>>,
       <<93817, <<93785>>, <<93817>>>>, <<93818, <<93786>>, <<93818>>>>,
       <<93819, <<93787>>, <<93819>>>>, <<93820, <<93788>>, <<93820>>>>,
       <<93821, <<93789>>, <<93821>>>>, <<93822, <<93790>>, <<93822>>>>,
       <<93823, <<93791>>, <<93823>>>>, <<125184, <<125184>>, <<125218>>>>,
       <<125185, <<125185>>, <<125219>>>>,
       <<125186, <<125186>>, <<125220>>>>,
       <<125187, <<125187>>, <<125221>>>>,
       <<125188, <<125188>>, <<125222>>>>,
       <<125189, <<125189>>, <<125223>>>>,
       <<125190, <<125190>>, <<125224>>>>,
       <<125191, <<125191>>, <<125225>>>>,
       <<125192, <<125192>>, <<125226>>>>,
       <<125193, <<125193>>, <<125227>>>>,
       <<125194, <<125194>>, <<125228>>>>,
       <<125195, <<125195>>, <<125229>>>>,
       <<125196, <<125196>>, <<125230>>>>,
       <<125197, <<125197>>, <<125231>>>>,
       <<125198, <<125198>>, <<125232>>>>,
       <<125199, <<125199>>, <<125233>>>>,
       <<125200, <<125200>>, <<125234>>>>,
       <<125201, <<125201>>, <<125235>>>>,
       <<125202, <<125202>>, <<125236>>>>,
       <<125203, <<125203>>, <<125237>>>>,
       <<125204, <<125204>>, <<125238>>>>,
       <<125205, <<125205>>, <<125239>>>>,
       <<125206, <<125206>>, <<125240>>>>,
       <<125207, <<125207>>, <<125241>>>>,
       <<125208, <<125208>>, <<125242>>>>,
       <<125209, <<125209>>, <<125243>>>>,
       <<125210, <<125210>>, <<125244>>>>,
       <<125211, <<125211>>, <<125245>>>>,
       <<125212, <<125212>>, <<125246>>>>,
       <<125213, <<125213>>, <<125247>>>>,
       <<125214, <<125214>>, <<125248>>>>,
       <<125215, <<125215>>, <<125249>>>>,
       <<125216, <<125216>>, <<125250>>>>,
       <<125217, <<125217>>, <<125251>>>>,
       <<125218, <<125184>>, <<125218>>>>,
       <<125219, <<125185>>, <<125219>>>>,
       <<125220, <<125186>>, <<125220>>>>,
       <<125221, <<125187>>, <<125221>>>>,
       <<125222, <<125188>>, <<125222>>>>,
       <<125223, <<125189>>, <<125223>>>>,
       <<125224, <<125190>>, <<125224>>>>,
       <<125225, <<125191>>, <<125225>>>>,
       <<125226, <<125192>>, <<125226>>>>,
       <<125227, <<125193>>, <<125227>>>>,
       <<125228, <<125194>>, <<125228>>>>,
       <<125229, <<125195>>, <<125229>>>>,
       <<125230, <<125196>>, <<125230>>>>,
       <<125231, <<125197>>, <<125231>>>>,
       <<125232, <<125198>>, <<125232>>>>,
       <<125233, <<125199>>, <<125233>>>>,
       <<125234, <<125200>>, <<125234>>>>,
       <<125235, <<125201>>, <<125235>>>>,
       <<125236, <<125202>>, <<125236>>>>,
       <<125237, <<125203>>, <<125237>>>>,
       <<125238, <<125204>>, <<125238>>>>,
       <<125239, <<125205>>, <<125239>>>>,
       <<125240, <<125206>>, <<125240>>>>,
       <<125241, <<125207>>, <<125241>>>>,
       <<125242, <<125208>>, <<125242>>>>,
       <<125243, <<125209>>, <<125243>>>>,
       <<125244, <<125210>>, <<125244>>>>,
       <<125245, <<125211>>, <<125245>>>>,
       <<125246, <<125212>>, <<125246>>>>,
       <<125247, <<125213>>, <<125247>>>>,
       <<125248, <<125214>>, <<125248>>>>,
       <<125249, <<125215>>, <<125249>>>>,
       <<125250, <<125216>>, <<125250>>>>,
       <<125251, <<125217>>, <<125251>>>> >>

\* the characters that the search for a final sigma skips (Case_Ignorable)
CaseIgnorable ==
    << <<39, 39>>, <<46, 46>>, <<58, 58>>, <<94, 94>>, <<96, 96>>,
       <<168, 168>>, <<173, 173>>, <<175, 175>>, <<180, 180>>, <<183, 184>>,
       <<688, 879>>, <<884, 885>>, <<890, 890>>, <<900, 901>>, <<903, 903>>,
       <<1155, 1161>>, <<1369, 1369>>, <<1375, 1375>>, <<1425, 1469>>,
       <<1471, 1471>>, <<1473, 1474>>, <<1476, 1477>>, <<1479, 1479>>,
       <<1524, 1524>>, <<1536, 1541>>, <<1552, 1562>>, <<1564, 1564>>,
       <<1600, 1600>>, <<1611, 1631>>, <<1648, 1648>>, <<1750, 1757>>,
       <<1759, 1768>>, <<1770, 1773>>, <<1807, 1807>>, <<1809, 1809>>,
       <<1840, 1866>>, <<1958, 1968>>, <<2027, 2037>>, <<2042, 2042>>,
       <<2045, 2045>>, <<2070, 2093>>, <<2137, 2139>>, <<2184, 2184>>,
       <<2192, 2193>>, <<2200, 2207>>, <<2249, 2306>>, <<2362, 2362>>,
       <<2364, 2364>>, <<2369, 2376>>, <<2381, 2381>>, <<2385, 2391>>,
       <<2402, 2403>>, <<2417, 2417>>, <<2433, 2433>>, <<2492, 2492>>,
       <<2497, 2500>>, <<2509, 2509>>, <<2530, 2531>>, <<2558, 2558>>,
       <<2561, 2562>>, <<2620, 2620>>, <<2625, 2626>>, <<2631, 2632>>,
       <<2635, 2637>>, <<2641, 2641>>, <<2672, 2673>>, <<2677, 2677>>,
       <<2689, 2690>>, <<2748, 2748>>, <<2753, 2757>>, <<2759, 2760>>,
       <<2765, 2765>>, <<2786, 2787>>, <<2810, 2815>>, <<2817, 2817>>,
       <<2876, 2876>>, <<2879, 2879>>, <<2881, 2884>>, <<2893, 2893>>,
       <<2901, 2902>>, <<2914, 2915>>, <<2946, 2946>>, <<3008, 3008>>,
       <<3021, 3021>>, <<3072, 3072>>, <<3076, 3076>>, <<3132, 3132>>,
       <<3134, 3136>>, <<3142, 3144>>, <<3146, 3149>>, <<3157, 3158>>,
       <<3170, 3171>>, <<3201, 3201>>, <<3260, 3260>>, <<3263, 3263>>,
       <<3270, 3270>>, <<3276, 3277>>, <<3298, 3299>>, <<3328, 3329>>,
       <<3387, 3388>>, <<3393, 3396>>, <<3405, 3405>>, <<3426, 3427>>,
       <<3457, 3457>>, <<3530, 3530>>, <<3538, 3540>>, <<3542, 3542>>,
       <<3633, 3633>>, <<3636, 3642>>, <<3654, 3662>>, <<3761, 3761>>,
       <<3764, 3772>>, <<3782, 3782>>, <<3784, 3789>>, <<3864, 3865>>,
       <<3893, 3893>>, <<3895, 3895>>, <<3897, 3897>>, <<3953, 3966>>,
       <<3968, 3972>>, <<3974, 3975>>, <<3981, 3991>>, <<3993, 4028>>,
       <<4038, 4038>>, <<4141, 4144>>, <<4146, 4151>>, <<4153, 4154>>,
       <<4157, 4158>>, <<4184, 4185>>, <<4190, 4192>>, <<4209, 4212>>,
       <<4226, 4226>>, <<4229, 4230>>, <<4237, 4237>>, <<4253, 4253>>,
       <<4348, 4348>>, <<4957, 4959>>, <<5906, 5908>>, <<5938, 5939>>,
       <<5970, 5971>>, <<6002, 6003>>, <<6068, 6069>>, <<6071, 6077>>,
       <<6086, 6086>>, <<6089, 6099>>, <<6103, 6103>>, <<6109, 6109>>,
       <<6155, 6159>>, <<6211, 6211>>, <<6277, 6278>>, <<6313, 6313>>,
       <<6432, 6434>>, <<6439, 6440>>, <<6450, 6450>>, <<6457, 6459>>,
       <<6679, 6680>>, <<6683, 6683>>, <<6742, 6742>>, <<6744, 6750>>,
       <<6752, 6752>>, <<6754, 6754>>, <<6757, 6764>>, <<6771, 6780>>,
       <<6783, 6783>>, <<6823, 6823>>, <<6832, 6862>>, <<6912, 6915>>,
       <<6964, 6964>>, <<6966, 6970>>, <<6972, 6972>>, <<6978, 6978>>,
       <<7019, 7027>>, <<7040, 7041>>, <<7074, 7077>>, <<7080, 7081>>,
       <<7083, 7085>>, <<7142, 7142>>, <<7144, 7145>>, <<7149, 7149>>,
       <<7151, 7153>>, <<7212, 7219>>, <<7222, 7223>>, <<7288, 7293>>,
       <<7376, 7378>>, <<7380, 7392>>, <<7394, 7400>>, <<7405, 7405>>,
       <<7412, 7412>>, <<7416, 7417>>, <<7468, 7530>>, <<7544, 7544>>,
       <<7579, 7679>>, <<8125, 8125>>, <<8127, 8129>>, <<8141, 8143>>,
       <<8157, 8159>>, <<8173, 8175>>, <<8189, 8190>>, <<8203, 8207>>,
       <<8216, 8217>>, <<8228, 8228>>, <<8231, 8231>>, <<8234, 8238>>,
       <<8288, 8292>>, <<8294, 8303>>, <<8305, 8305>>, <<8319, 8319>>,
       <<8336, 8348>>, <<8400, 8432>>, <<11388, 11389>>, <<11503, 11505>>,
       <<11631, 11631>>, <<11647, 11647>>, <<11744, 11775>>,
       <<11823, 11823>>, <<12293, 12293>>, <<12330, 12333>>,
       <<12337, 12341>>, <<12347, 12347>>, <<12441, 12446>>,
       <<12540, 12542>>, <<40981, 40981>>, <<42232, 42237>>,
       <<42508, 42508>>, <<42607, 42610>>, <<42612, 42621>>,
       <<42623, 42623>>, <<42652, 42655>>, <<42736, 42737>>,
       <<42752, 42785>>, <<42864, 42864>>, <<42888, 42890>>,
       <<42994, 42996>>, <<43000, 43001>>, <<43010, 43010>>,
       <<43014, 43014>>, <<43019, 43019>>, <<43045, 43046>>,
       <<43052, 43052>>, <<43204, 43205>>, <<43232, 43249>>,
       <<43263, 43263>>, <<43302, 43309>>, <<43335, 43345>>,
       <<43392, 43394>>, <<43443, 43443>>, <<43446, 43449>>,
       <<43452, 43453>>, <<43471, 43471>>, <<43493, 43494>>,
       <<43561, 43566>>, <<43569, 43570>>, <<43573, 43574>>,
       <<43587, 43587>>, <<43596, 43596>>, <<43632, 43632>>,
       <<43644, 43644>>, <<43696, 43696>>, <<43698, 43700>>,
       <<43703, 43704>>, <<43710, 43711>>, <<43713, 43713>>,
       <<43741, 43741>>, <<43756, 43757>>, <<43763, 43764>>,
       <<43766, 43766>>, <<43867, 43871>>, <<43881, 43883>>,
       <<44005, 44005>>, <<44008, 44008>>, <<44013, 44013>>,
       <<64286, 64286>>, <<64434, 64450>>, <<65024, 65039>>,
       <<65043, 65043>>, <<65056, 65071>>, <<65106, 65106>>,
       <<65109, 65109>>, <<65279, 65279>>, <<65287, 65287>>,
       <<65294, 65294>>, <<65306, 65306>>, <<65342, 65342>>,
       <<65344, 65344>>, <<65392, 65392>>, <<65438, 65439>>,
       <<65507, 65507>>, <<65529, 65531>>, <<66045, 66045>>,
       <<66272, 66272>>, <<66422, 66426>>, <<67456, 67461>>,
       <<67463, 67504>>, <<67506, 67514>>, <<68097, 68099>>,
       <<68101, 68102>>, <<68108, 68111>>, <<68152, 68154>>,
       <<68159, 68159>>, <<68325, 68326>>, <<68900, 68903>>,
       <<69291, 69292>>, <<69446, 69456>>, <<69506, 69509>>,
       <<69633, 69633>>, <<69688, 69702>>, <<69744, 69744>>,
       <<69747, 69748>>, <<69759, 69761>>, <<69811, 69814>>,
       <<69817, 69818>>, <<69821, 69821>>, <<69826, 69826>>,
       <<69837, 69837>>, <<69888, 69890>>, <<69927, 69931>>,
       <<69933, 69940>>, <<70003, 70003>>, <<70016, 70017>>,
       <<70070, 70078>>, <<70089, 70092>>, <<70095, 70095>>,
       <<70191, 70193>>, <<70196, 70196>>, <<70198, 70199>>,
       <<70206, 70206>>, <<70367, 70367>>, <<70371, 70378>>,
       <<70400, 70401>>, <<70459, 70460>>, <<70464, 70464>>,
       <<70502, 70508>>, <<70512, 70516>>, <<70712, 70719>>,
       <<70722, 70724>>, <<70726, 70726>>, <<70750, 70750>>,
       <<70835, 70840>>, <<70842, 70842>>, <<70847, 70848>>,
       <<70850, 70851>>, <<71090, 71093>>, <<71100, 71101>>,
       <<71103, 71104>>, <<71132, 71133>>, <<71219, 71226>>,
       <<71229, 71229>>, <<71231, 71232>>, <<71339, 71339>>,
       <<71341, 71341>>, <<71344, 71349>>, <<71351, 71351>>,
       <<71453, 71455>>, <<71458, 71461>>, <<71463, 71467>>,
       <<71727, 71735>>, <<71737, 71738>>, <<71995, 71996>>,
       <<71998, 71998>>, <<72003, 72003>>, <<72148, 72151>>,
       <<72154, 72155>>, <<72160, 72160>>, <<72193, 72202>>,
       <<72243, 72248>>, <<72251, 72254>>, <<72263, 72263>>,
       <<72273, 72278>>, <<72281, 72283>>, <<72330, 72342>>,
       <<72344, 72345>>, <<72752, 72758>>, <<72760, 72765>>,
       <<72767, 72767>>, <<72850, 72871>>, <<72874, 72880>>,
       <<72882, 72883>>, <<72885, 72886>>, <<73009, 73014>>,
       <<73018, 73018>>, <<73020, 73021>>, <<73023, 73029>>,
       <<73031, 73031>>, <<73104, 73105>>, <<73109, 73109>>,
       <<73111, 73111>>, <<73459, 73460>>, <<78896, 78904>>,
       <<92912, 92916>>, <<92976, 92982>>, <<92992, 92995>>,
       <<94031, 94031>>, <<94095, 94111>>, <<94176, 94177>>,
       <<94179, 94180>>, <<110576, 110579>>, <<110581, 110587>>,
       <<110589, 110590>>, <<113821, 113822>>, <<113824, 113827>>,
       <<118528, 118573>>, <<118576, 118598>>, <<119143, 119145>>,
       <<119155, 119170>>, <<119173, 119179>>, <<119210, 119213>>,
       <<119362, 119364>>, <<121344, 121398>>, <<121403, 121452>>,
       <<121461, 121461>>, <<121476, 121476>>, <<121499, 121503>>,
       <<121505, 121519>>, <<122880, 122886>>, <<122888, 122904>>,
       <<122907, 122913>>, <<122915, 122916>>, <<122918, 122922>>,
       <<123184, 123197>>, <<123566, 123566>>, <<123628, 123631>>,
       <<125136, 125142>>, <<125252, 125259>>, <<127995, 127999>>,
       <<917505, 917505>>, <<917536, 917631>>, <<917760, 917999>> >>

\* the cased characters among those the search does not skip
CasedLetters ==
    << <<65, 90>>, <<97, 122>>, <<170, 170>>, <<181, 181>>, <<186, 186>>,
       <<192, 214>>, <<216, 246>>, <<248, 442>>, <<444, 447>>, <<452, 659>>,
       <<661, 687>>, <<880, 883>>, <<886, 887>>, <<891, 893>>, <<895, 895>>,
       <<902, 902>>, <<904, 906>>, <<908, 908>>, <<910, 929>>, <<931, 1013>>,
       <<1015, 1153>>, <<1162, 1327>>, <<1329, 1366>>, <<1376, 1416>>,
       <<4256, 4293>>, <<4295, 4295>>, <<4301, 4301>>, <<4304, 4346>>,
       <<4349, 4351>>, <<5024, 5109>>, <<5112, 5117>>, <<7296, 7304>>,
       <<7312, 7354>>, <<7357, 7359>>, <<7424, 7467>>, <<7531, 7543>>,
       <<7545, 7578>>, <<7680, 7957>>, <<7960, 7965>>, <<7968, 8005>>,
       <<8008, 8013>>, <<8016, 8023>>, <<8025, 8025>>, <<8027, 8027>>,
       <<8029, 8029>>, <<8031, 8061>>, <<8064, 8116>>, <<8118, 8124>>,
       <<8126, 8126>>, <<8130, 8132>>, <<8134, 8140>>, <<8144, 8147>>,
       <<8150, 8155>>, <<8160, 8172>>, <<8178, 8180>>, <<8182, 8188>>,
       <<8450, 8450>>, <<8455, 8455>>, <<8458, 8467>>, <<8469, 8469>>,
       <<8473, 8477>>, <<8484, 8484>>, <<8486, 8486>>, <<8488, 8488>>,
       <<8490, 8493>>, <<8495, 8500>>, <<8505, 8505>>, <<8508, 8511>>,
       <<8517, 8521>>, <<8526, 8526>>, <<8544, 8575>>, <<8579, 8580>>,
       <<9398, 9449>>, <<11264, 11387>>, <<11390, 11492>>, <<11499, 11502>>,
       <<11506, 11507>>, <<11520, 11557>>, <<11559, 11559>>,
       <<11565, 11565>>, <<42560, 42605>>, <<42624, 42651>>,
       <<42786, 42863>>, <<42865, 42887>>, <<42891, 42894>>,
       <<42896, 42954>>, <<42960, 42961>>, <<42963, 42963>>,
       <<42965, 42969>>, <<42997, 42998>>, <<43002, 43002>>,
       <<43824, 43866>>, <<43872, 43880>>, <<43888, 43967>>,
       <<64256, 64262>>, <<64275, 64279>>, <<65313, 65338>>,
       <<65345, 65370>>, <<66560, 66639>>, <<66736, 66771>>,
       <<66776, 66811>>, <<66928, 66938>>, <<66940, 66954>>,
       <<66956, 66962>>, <<66964, 66965>>, <<66967, 66977>>,
       <<66979, 66993>>, <<66995, 67001>>, <<67003, 67004>>,
       <<68736, 68786>>, <<68800, 68850>>, <<71840, 71903>>,
       <<93760, 93823>>, <<119808, 119892>>, <<119894, 119964>>,
       <<119966, 119967>>, <<119970, 119970>>, <<119973, 119974>>,
       <<119977, 119980>>, <<119982, 119993>>, <<119995, 119995>>,
       <<119997, 120003>>, <<120005, 120069>>, <<120071, 120074>>,
       <<120077, 120084>>, <<120086, 120092>>, <<120094, 120121>>,
       <<120123, 120126>>, <<120128, 120132>>, <<120134, 120134>>,
       <<120138, 120144>>, <<120146, 120485>>, <<120488, 120512>>,
       <<120514, 120538>>, <<120540, 120570>>, <<120572, 120596>>,
       <<120598, 120628>>, <<120630, 120654>>, <<120656, 120686>>,
       <<120688, 120712>>, <<120714, 120744>>, <<120746, 120770>>,
       <<120772, 120779>>, <<122624, 122633>>, <<122635, 122654>>,
       <<125184, 125251>>, <<127280, 127305>>, <<127312, 127337>>,
       <<127344, 127369>> >>

InRanges(c, ranges) ==
    \E k \in 1..Len(ranges) : ranges[k][1] <= c /\ c <= ranges[k][2]

\* the entry of every character that has one
CaseOf ==
    [c \in {CaseTable[k][1] : k \in 1..Len(CaseTable)} |->
        CaseTable[CHOOSE k \in 1..Len(CaseTable) : CaseTable[k][1] = c]]

UpperChar(c) == IF c \in DOMAIN CaseOf THEN CaseOf[c][2] ELSE <<c>>

RECURSIVE Before(_, _)
\* the place of the last character of chars[1 .. j] that is not skipped, or 0
Before(chars, j) ==
    IF j = 0 \/ ~InRanges(chars[j], CaseIgnorable) THEN j
    ELSE Before(chars, j - 1)

RECURSIVE After(_, _)
\* the place of the first character of chars[j ..] that is not skipped, or
\* Len(chars) + 1
After(chars, j) ==
    IF j > Len(chars) \/ ~InRanges(chars[j], CaseIgnorable) THEN j
    ELSE After(chars, j + 1)

\* a capital sigma ends a word: a cased letter comes before it and none
\* comes after it
FinalSigma(chars, k) ==
    LET b == Before(chars, k - 1)
        a == After(chars, k + 1)
    IN  /\ b >= 1
        /\ InRanges(chars[b], CasedLetters)
        /\ a > Len(chars) \/ ~InRanges(chars[a], CasedLetters)

\* the lower case of the k-th character: a capital sigma (931) becomes a
\* final sigma (962) at the end of a word and a sigma (963) elsewhere
LowerChar(chars, k) ==
    IF chars[k] = 931
    THEN (IF FinalSigma(chars, k) THEN <<962>> ELSE <<963>>)
    ELSE IF chars[k] \in DOMAIN CaseOf THEN CaseOf[chars[k]][3]
    ELSE <<chars[k]>>

RECURSIVE Upper(_, _)
\* string.upper(), from the k-th character on
Upper(chars, k) ==
    IF k > Len(chars) THEN <<>>
    ELSE UpperChar(chars[k]) \o Upper(chars, k + 1)

RECURSIVE Lower(_, _)
\* string.lower(), from the k-th character on
Lower(chars, k) ==
    IF k > Len(chars) THEN <<>>
    ELSE LowerChar(chars, k) \o Lower(chars, k + 1)

\* def upperAndLower(string): return string.upper(), string.lower()
upperAndLower(chars) == <<Upper(chars, 1), Lower(chars, 1)>>

\* the characters of the codes 32 .. 95 and 97 .. 126, in the order of their
\* codes: the printable characters that a text of this module can hold
Printable ==
    " !\"#$%&'()*+,-./0123456789:;<=>?@ABCDEFGHIJKLMNOPQRSTUVWXYZ[\\]^_"
        \o "abcdefghijklmnopqrstuvwxyz{|}~"

RECURSIVE Text(_, _)
\* the text of a string of such characters, from the k-th on
Text(chars, k) ==
    IF k > Len(chars) THEN ""
    ELSE LET c == chars[k]
             place == IF c < 96 THEN c - 31 ELSE c - 32
         IN  SubSeq(Printable, place, place) \o Text(chars, k + 1)

KernelIdle ==
    /\ ns = [n \in KernelNames |-> Unbound]
    /\ cell = ""
    /\ out = ""
    /\ shown = ""
    /\ err = ""
    /\ disk = {}
    /\ kloaded = {}
    /\ procs = 0
    /\ steps = 0

\* The cell c has run: the namespace it leaves, its output, its displayed
\* result and its exception.
Ran(c, space, printed, result, exception) ==
    /\ steps < MaxCells
    /\ steps' = steps + 1
    /\ cell' = c
    /\ ns' = space
    /\ out' = printed
    /\ shown' = result
    /\ err' = exception
    /\ UNCHANGED <<vecvars, modvars, starvars>>

Fails(c, n) == Ran(c, ns, "", "", NameError(n))

\* from math import sqrt; sqrt(4)
CellSqrt ==
    /\ Ran("sqrt(4)", FromImport(ns, "math", {"sqrt"}), "",
           StrFloat(Sqrt(FromInt(4))), "")
    /\ UNCHANGED <<disk, kloaded, procs>>

\* math.sin(2) without its import statement
CellMathSinNeedsMath ==
    /\ IF ns["math"] = Unbound THEN Fails("math.sin(2)", "math")
       ELSE Ran("math.sin(2)", ns, "", StrFloat(Float(909)), "")
    /\ UNCHANGED <<disk, kloaded, procs>>

\* import math; math.sin(2)     (sin(2) is 0.9092974268256817)
CellMathSin ==
    /\ Ran("math.sin(2)", ImportAs(ns, "math", "math"), "",
           StrFloat(Float(909)), "")
    /\ UNCHANGED <<disk, kloaded, procs>>

\* x = math.sin(2); print(x)
CellAssignSin ==
    /\ IF ns["math"] = Unbound THEN Fails("x = math.sin(2)", "math")
       ELSE Ran("x = math.sin(2)", Bind(ns, "x", StrFloat(Float(909))),
                StrFloat(Float(909)) \o "\n", "", "")
    /\ UNCHANGED <<disk, kloaded, procs>>

\* def greeting(): ...
CellDefGreeting ==
    /\ Ran("def greeting", Bind(ns, "greeting", FunctionValue("greeting")),
           "", "", "")
    /\ UNCHANGED <<disk, kloaded, procs>>

\* greeting()        (a result of None is not displayed)
CellCallGreeting ==
    /\ IF ns["greeting"] = Unbound THEN Fails("greeting()", "greeting")
       ELSE LET r == CallFunction(GreetingBody)
            IN  Ran("greeting()", ns, r.out,
                    IF r.ret = None THEN "" ELSE r.ret, "")
    /\ UNCHANGED <<disk, kloaded, procs>>

\* x = greeting()
CellAssignGreeting ==
    /\ IF ns["greeting"] = Unbound THEN Fails("x = greeting()", "greeting")
       ELSE LET r == CallFunction(GreetingBody)
            IN  Ran("x = greeting()", Bind(ns, "x", r.ret), r.out, "", "")
    /\ UNCHANGED <<disk, kloaded, procs>>

\* print(x)
CellPrintX ==
    /\ IF ns["x"] = Unbound THEN Fails("print(x)", "x")
       ELSE Ran("print(x)", ns, ns["x"] \o "\n", "", "")
    /\ UNCHANGED <<disk, kloaded, procs>>

\* def printpluses(n): ...
CellDefPrintpluses ==
    /\ Ran("def printpluses",
           Bind(ns, "printpluses", FunctionValue("printpluses")), "", "", "")
    /\ UNCHANGED <<disk, kloaded, procs>>

\* def square(x): ...
CellDefSquare ==
    /\ Ran("def square", Bind(ns, "square", FunctionValue("square")),
           "", "", "")
    /\ UNCHANGED <<disk, kloaded, procs>>

\* the square listing: def square and the loop of the main program
CellSquareListing ==
    /\ LET f == RunToEnd(NewFrame("square.py", "run"))
       IN  Ran("square listing", BindFrame(ns, f), f.out, "", f.exc)
    /\ UNCHANGED <<disk, kloaded, procs>>

\* import math; def hypot(x, y): ...
CellDefHypot ==
    /\ Ran("def hypot",
           Bind(ImportAs(ns, "math", "math"), "hypot", FunctionValue("hypot")),
           "", "", "")
    /\ UNCHANGED <<disk, kloaded, procs>>

\* def upperAndLower, testword = 'Banana', the call and the print
CellUpperAndLower ==
    /\ LET testword == <<66, 97, 110, 97, 110, 97>>
           r == upperAndLower(testword)
           uppercase == Text(r[1], 1)
           lowercase == Text(r[2], 1)
           bound1 == Bind(ns, "upperAndLower", FunctionValue("upperAndLower"))
           bound2 == Bind(bound1, "testword", Text(testword, 1))
           bound3 == Bind(Bind(bound2, "uppercase", uppercase),
                          "lowercase", lowercase)
       IN  Ran("upperAndLower", bound3,
               Text(testword, 1) \o " in lowercase: " \o lowercase
                   \o " and in uppercase " \o uppercase \o "\n",
               "", "")
    /\ UNCHANGED <<disk, kloaded, procs>>

\* def returnstars, def print_centred_in_stars,
\* print_centred_in_stars('Hello world!')
CellCentredInStars ==
    /\ Ran("print_centred_in_stars",
           Bind(Bind(ns, "returnstars", FunctionValue("returnstars")),
                "print_centred_in_stars",
                FunctionValue("print_centred_in_stars")),
           print_centred_in_stars("Hello world!"), "", "")
    /\ UNCHANGED <<disk, kloaded, procs>>

\* import math
CellImportMath ==
    /\ Ran("import math", ImportAs(ns, "math", "math"), "", "", "")
    /\ UNCHANGED <<disk, kloaded, procs>>

\* import math, cmath
CellImportMathCmath ==
    /\ Ran("import math, cmath",
           ImportAs(ImportAs(ns, "math", "math"), "cmath", "cmath"),
           "", "", "")
    /\ UNCHANGED <<disk, kloaded, procs>>

\* import math; import cmath; import math as mathematics
CellImportMathAs ==
    /\ Ran("import math as mathematics",
           ImportAs(ImportAs(ImportAs(ns, "math", "math"), "cmath", "cmath"),
                    "math", "mathematics"),
           "", "", "")
    /\ UNCHANGED <<disk, kloaded, procs>>

\* from math import sin
CellFromMathImportSin ==
    /\ Ran("from math import sin", FromImport(ns, "math", {"sin"}), "", "", "")
    /\ UNCHANGED <<disk, kloaded, procs>>

\* from math import sin, cos
CellFromMathImportSinCos ==
    /\ Ran("from math import sin, cos", FromImport(ns, "math", {"sin", "cos"}),
           "", "", "")
    /\ UNCHANGED <<disk, kloaded, procs>>

\* from math import *
CellFromMathImportStar ==
    /\ Ran("from math import *", FromImportStar(ns, "math"), "", "", "")
    /\ UNCHANGED <<disk, kloaded, procs>>

\* %%file name: the cell's text is written to the file
WriteFile(c, file) ==
    /\ Ran(c, ns,
           (IF file \in disk THEN "Overwriting " ELSE "Writing ")
               \o file \o "\n",
           "", "")
    /\ disk' = disk \cup {file}
    /\ UNCHANGED <<kloaded, procs>>

\* the directory the kernel runs in
WorkingDirectory == "<cwd>"

RECURSIVE TerminalFrom(_, _)
\* what a terminal shows of text[k ..]: every line feed preceded by a
\* carriage return
TerminalFrom(text, k) ==
    IF k > Len(text) THEN ""
    ELSE LET c == SubSeq(text, k, k)
         IN  (IF c = "\n" THEN "\r\n" ELSE c) \o TerminalFrom(text, k + 1)

\* the text a command writes, as ! captures it from the pseudo-terminal
\* the command runs on
Terminal(text) == TerminalFrom(text, 1)

\* !python3 name: a new interpreter runs the file, if there is one, and
\* otherwise names the file it cannot open by its full path (Python 3.9 and
\* later)
ShellPython(c, file) ==
    /\ IF file \in disk
       THEN Ran(c, ns, Terminal(RunToEnd(NewFrame(file, "run")).out), "", "")
       ELSE Ran(c, ns,
                Terminal("python3: can't open file '" \o WorkingDirectory
                             \o "/" \o file
                             \o "': [Errno 2] No such file or directory\n"),
                "", "")
    /\ procs' = procs + 1
    /\ UNCHANGED <<disk, kloaded>>

\* %%file module1.py
CellWriteModule1 == WriteFile("%%file module1.py", "module1.py")

\* !python3 module1.py
CellRunModule1 == ShellPython("!python3 module1.py", "module1.py")

\* the file python3 keeps the byte-code of the module m in
BytecodeFile(m) == "__pycache__/" \o m \o ".cpython-311.pyc"

\* import module1: the first import executes the file and, unless the
\* environment forbids it (PYTHONDONTWRITEBYTECODE), writes its byte-code
CellImportModule1 ==
    IF "module1" \in kloaded
    THEN /\ Ran("import module1", ImportAs(ns, "module1", "module1"),
                "", "", "")
         /\ UNCHANGED <<disk, kloaded, procs>>
    ELSE IF FileOf("module1") \in disk
    THEN LET f == RunToEnd(NewFrame(FileOf("module1"), "import"))
         IN  /\ Ran("import module1", ImportAs(ns, "module1", "module1"),
                    f.out, "", "")
             /\ kloaded' = kloaded \cup {"module1"}
             /\ \E written \in BOOLEAN :
                    disk' = IF written
                            THEN disk \cup {BytecodeFile("module1")}
                            ELSE disk
             /\ UNCHANGED procs
    ELSE /\ Ran("import module1", ns, "", "",
                "ModuleNotFoundError: No module named 'module1'")
         /\ UNCHANGED <<disk, kloaded, procs>>

\* %%file vectools.py
CellWriteVectools == WriteFile("%%file vectools.py", "vectools.py")

\* !python3 vectools.py
CellRunVectools == ShellPython("!python3 vectools.py", "vectools.py")

\* a primes5 listing that is also written to its file
PrimesListingWritesFile(c, file) ==
    /\ LET f == RunToEnd(NewFrame(file, "run"))
       IN  Ran(c, BindFrame(ns, f), f.out, "", f.exc)
    /\ disk' = disk \cup {file}
    /\ UNCHANGED <<kloaded, procs>>

\* a primes5 listing, executed in the kernel, where __name__ is "__main__"
PrimesListing(c, file) ==
    /\ LET f == RunToEnd(NewFrame(file, "run"))
       IN  Ran(c, BindFrame(ns, f), f.out, "", f.exc)
    /\ UNCHANGED <<disk, kloaded, procs>>

CellPrimes5Loop == PrimesListing("primes5 loop", "primes5_loop.py")
CellPrimes5Guarded == PrimesListing("primes5 guarded", "primes5_guarded.py")
CellPrimes5Main == PrimesListing("primes5 main", "primes5_main.py")

ModInit ==
    /\ ModIdle
    /\ VecIdle
    /\ KernelIdle
    /\ StarsIdle

ModNext ==
    \/ \E file \in ProgramFiles : RunFile(file)
    \/ \E m \in ModuleNames : ImportFile(m)
    \/ \E m \in ModuleNames : ImportLoaded(m)
    \/ Step
    \/ Finish

SpecMod == ModInit /\ [][ModNext]_vars

NbInit ==
    /\ KernelIdle
    /\ ModIdle
    /\ VecIdle
    /\ StarsIdle

NbNext ==
    \/ CellSqrt
    \/ CellMathSin
    \/ CellAssignSin
    \/ CellDefGreeting
    \/ CellCallGreeting
    \/ CellAssignGreeting
    \/ CellPrintX
    \/ CellDefPrintpluses
    \/ CellDefSquare
    \/ CellSquareListing
    \/ CellDefHypot
    \/ CellUpperAndLower
    \/ CellCentredInStars
    \/ CellImportMath
    \/ CellImportMathCmath
    \/ CellImportMathAs
    \/ CellFromMathImportSin
    \/ CellFromMathImportSinCos
    \/ CellFromMathImportStar
    \/ CellWriteModule1
    \/ CellRunModule1
    \/ CellImportModule1
    \/ CellWriteVectools
    \/ CellRunVectools
    \/ CellPrimes5Loop
    \/ CellPrimes5Guarded
    \/ CellPrimes5Main

SpecNb == NbInit /\ [][NbNext]_vars

(***************************************************************************)
(* The vectors norm and unitvector are applied to: every vector of at most *)
(* MaxLen small components, and the one-component vectors at the two       *)
(* thresholds of int64 squaring: 2^32, whose square is 2^64, and           *)
(* 3037000500, the least integer whose square exceeds 2^63 - 1.            *)
(***************************************************************************)
Two32 == <<0, 0, 0, 0, 1, 0, 0, 0>>
Root63 == <<52, 243, 4, 181, 0, 0, 0, 0>>

SmallVectors ==
    UNION {[1..n -> {FromInt(v) : v \in -MaxComp..MaxComp}] : n \in 0..MaxLen}

\* vectors of larger components whose squares are int64 values
WideVectors ==
    {<<FromInt(47)>>, <<FromInt(30), FromInt(40)>>, <<FromInt(65536)>>,
     <<FromInt(-65536), FromInt(1)>>}

Vectors == SmallVectors \cup WideVectors \cup {<<Two32>>, <<Root63>>}

VecInit ==
    /\ vec \in Vectors
    /\ call = ""
    /\ res = NoResult
    /\ ModIdle
    /\ KernelIdle
    /\ StarsIdle

CallNorm ==
    /\ call' = "norm"
    /\ res' = LET r == norm(vec)
              IN  [exc |-> r.exc,
                   val |-> IF r.exc = NoError THEN <<r.val>> ELSE <<>>,
                   divs |-> 0]
    /\ UNCHANGED <<vec, modvars, nbvars, starvars>>

CallUnitvector ==
    /\ call' = "unitvector"
    /\ res' = unitvector(vec)
    /\ UNCHANGED <<vec, modvars, nbvars, starvars>>

VecNext == CallNorm \/ CallUnitvector

SpecVec == VecInit /\ [][VecNext]_vars

(***************************************************************************)
(* returnstars and print_centred_in_stars applied to arguments other than  *)
(* the one of the notebook's cell.                                         *)
(***************************************************************************)
\* strings of every length up to MaxString, the notebook's own argument,
\* and strings that hold stars themselves
Strings ==
    {Repeated(k, "a") : k \in 0..MaxString} \cup {"Hello world!", "*", "a*b"}

Counts == -2..MaxStars

StarsInit ==
    /\ sarg \in Strings
    /\ narg \in Counts
    /\ scall = ""
    /\ sline = ""
    /\ sret = ""
    /\ VecIdle
    /\ ModIdle
    /\ KernelIdle

CallPrintCentredInStars ==
    /\ scall' = "print_centred_in_stars"
    /\ sline' = print_centred_in_stars(sarg)
    /\ UNCHANGED <<sarg, narg, sret, vecvars, modvars, nbvars>>

CallReturnstars ==
    /\ scall' = "returnstars"
    /\ sret' = returnstars(narg)
    /\ UNCHANGED <<sarg, narg, sline, vecvars, modvars, nbvars>>

StarsNext == CallPrintCentredInStars \/ CallReturnstars

SpecStars == StarsInit /\ [][StarsNext]_vars

(***************************************************************************)
(* Properties of norm and unitvector, checked under SpecVec.               *)
(***************************************************************************)
\* The components of x as integers, for a vector of small components.
\* the largest int64, 2^63 - 1
MaxInt64 == UnsignedFrom(<<255, 255, 255, 255, 255, 255, 255, 127>>, 1)

\* a natural number one greater, and (for a >= m) m smaller
Plus(a, m) == Trim(DecAdd(a, DecOfNat(m), 0))

RECURSIVE Minus(_, _)
Minus(a, m) ==
    IF m = 0 THEN Trim(a)
    ELSE IF a[1] >= m THEN Trim([a EXCEPT ![1] = @ - m])
    ELSE Trim(<<a[1] + Scale - m>> \o Minus(Tail(a), 1))

\* every component of x is 0
AllZero(x) == \A k \in 1..Len(x) : IsZero(x[k])

RECURSIVE SumOfSquares(_, _)
\* the sum of x[k]^2, x[k + 1]^2, ... in unbounded integers
SumOfSquares(x, k) ==
    IF k > Len(x) THEN <<>>
    ELSE Trim(DecAdd(DecMul(Magnitude(x[k]), Magnitude(x[k])),
                     SumOfSquares(x, k + 1), 0))

\* the squares of the components of x and their sum are int64 values
IsSmallVector(x) == DecLeq(SumOfSquares(x, 1), MaxInt64)

\* the float f is the square root of the integer n, to the float model's
\* precision
IsRootOf(f, n) ==
    /\ ~f.neg
    /\ DecLeq(DecMul(f.mag, f.mag), Shift(n, 2))
    /\ ~DecLeq(DecMul(Plus(f.mag, 1), Plus(f.mag, 1)), Shift(n, 2))

\* the float f is the quotient c / sqrt(n), to the float model's precision
IsQuotientOf(f, c, n) ==
    LET aa == Shift(DecMul(Magnitude(c), Magnitude(c)), 2)
        g == f.mag
    IN  /\ g # <<>> => (f.neg <=> IsNegative(c))
        /\ \/ DecLeq(g, <<2>>)
           \/ DecLeq(DecMul(n, DecMul(Minus(g, 2), Minus(g, 2))), aa)
        /\ DecLeq(aa, DecMul(n, DecMul(Plus(g, 2), Plus(g, 2))))

\* C1: unitvector(x) raises ValueError whenever x has zero magnitude
\* (norm(x) == 0), and then returns no value and performs no division; for
\* every x with non-zero magnitude it raises no error.
C1_RaisesIffZeroMagnitude ==
    call = "unitvector" =>
        LET n == norm(vec)
            zero == n.exc = NoError /\ n.val = Float(0)
        IN  /\ zero => /\ res.exc = ZeroLengthError
                       /\ res.val = <<>>
                       /\ res.divs = 0
            /\ ~zero => res.exc = NoError

\* C4: for every x with non-zero magnitude unitvector(x) returns x/|x|:
\* each component of x divided by the magnitude of x, a vector of norm 1;
\* for x = (0, 1, 2) it is about (0, 0.447, 0.894).
C4_UnitvectorIsXOverMagnitude ==
    (call = "unitvector" /\ ~AllZero(vec)) =>
        /\ res.exc = NoError
        /\ Len(res.val) = Len(vec)
        /\ \A k \in 1..Len(vec) :
               IsQuotientOf(res.val[k], vec[k], SumOfSquares(vec, 1))
        /\ vec = <<FromInt(0), FromInt(1), FromInt(2)>>
               => res.val = <<Float(0), Float(447), Float(894)>>

\* C5: norm(x) returns the Euclidean magnitude of x, the non-negative
\* square root of the sum of the squares of its components: norm(x) = 0
\* exactly when every component is 0, and the norm of (0, 1, 2) is about
\* 2.236.
C5_NormIsEuclideanMagnitude ==
    call = "norm" =>
        /\ res.exc = NoError
        /\ Len(res.val) = 1
        /\ ~res.val[1].neg
        /\ res.val[1] = Float(0) <=> AllZero(vec)
        /\ IsRootOf(res.val[1], SumOfSquares(vec, 1))
        /\ vec = <<FromInt(0), FromInt(1), FromInt(2)>>
               => res.val = <<Float(2236)>>

\* What does hold of the two functions on the vectors of small components.
SmallVectorsBehave ==
    IsSmallVector(vec) =>
        /\ C1_RaisesIffZeroMagnitude
        /\ C4_UnitvectorIsXOverMagnitude
        /\ C5_NormIsEuclideanMagnitude

(***************************************************************************)
(* Properties of the program files, checked under SpecMod.                 *)
(***************************************************************************)
\* the kind of the statement control is at
OpAt(f) == IF Finished(f) THEN "end" ELSE Program(f.file)[f.pc].op

\* the statements executed so far
Executed(f) == {f.executed[k] : k \in 1..Len(f.executed)}

\* the statements of the block guarded by if __name__ == "__main__":
GuardedBlock(file) ==
    LET prog == Program(file)
    IN  UNION {(k + 1)..(prog[k].jump - 1) :
                  k \in {j \in 1..Len(prog) : prog[j].op = "if_main"}}

GuardedFiles == {file \in ProgramFiles : GuardedBlock(file) # {}}

\* the functions a file defines
FunctionsOf(file) ==
    LET prog == Program(file)
    IN  {prog[k].arg : k \in {j \in 1..Len(prog) : prog[j].op = "def"}}

Completed == status = "done" /\ frame.exc = NoError

\* C2: the block guarded by if __name__ == "__main__": (in vectools.py and
\* in the primes5 files) is executed if and only if the file is run
\* directly; when the file is imported no statement of the block is ever
\* executed; the functions the file defines are available in both cases.
C2_GuardedBlockIffRunDirectly ==
    frame.file \in GuardedFiles =>
        /\ frame.mode = "import"
               => Executed(frame) \cap GuardedBlock(frame.file) = {}
        /\ Completed =>
               /\ frame.mode = "run"
                      <=> GuardedBlock(frame.file) \subseteq Executed(frame)
               /\ FunctionsOf(frame.file) \subseteq frame.defs
               /\ frame.mode = "import" =>
                      /\ frame.name \in bound
                      /\ FunctionsOf(frame.file) \subseteq modules[frame.name]

C2_Witness ==
    /\ Completed
    /\ frame.file = "vectools.py"
    /\ frame.mode = "import"
    /\ Executed(frame) = 1..6
    /\ frame.out = ""
    /\ {"norm", "unitvector"} \subseteq modules["vectools"]

\* C3: inside a module file __name__ is "__main__" when the file is run on
\* its own and the module's name (the file name without .py) when it is
\* imported: module1.py prints "My name is __main__" when executed and
\* "My name is module1" when imported.
C3_NameIsMainOrModuleName ==
    frame.file # "" =>
        /\ frame.mode = "run" => frame.name = "__main__"
        /\ frame.mode = "import" => frame.name \o ".py" = frame.file
        /\ (frame.file = "module1.py" /\ Finished(frame)) =>
               frame.out = IF frame.mode = "run" THEN "My name is __main__\n"
                           ELSE "My name is module1\n"

C3_Witness ==
    /\ Completed
    /\ frame.file = "module1.py"
    /\ frame.mode = "import"
    /\ frame.name = "module1"
    /\ frame.out = "My name is module1\n"

Primes5Files == {"primes5_loop.py", "primes5_guarded.py", "primes5_main.py"}

\* C6: primes5() returns on every call the first five primes in ascending
\* order, (2, 3, 5, 7, 11); each of the three program variants, run
\* directly, prints exactly those five numbers in that order.
C6_Primes5PrintsFirstFivePrimes ==
    (frame.file \in Primes5Files /\ frame.mode = "run") =>
        /\ frame.exc = NoError
        /\ frame.p \in {0, 2, 3, 5, 7, 11}
        /\ Finished(frame) => frame.out = "2 3 5 7 11 "
        /\ ~Finished(frame) =>
               frame.out \in {"", "2 ", "2 3 ", "2 3 5 ", "2 3 5 7 ",
                              "2 3 5 7 11 "}

C6_Witness ==
    /\ Completed
    /\ frame.file = "primes5_main.py"
    /\ frame.mode = "run"
    /\ frame.out = "2 3 5 7 11 "

\* C7: square(x) returns x * x (squaring 3 yields 9); the main program that
\* calls it for i in range(5) prints exactly the five lines
\* "i * i = i_squared" for i = 0, 1, 2, 3, 4 in ascending order, with
\* i_squared = i * i on each, and then terminates.
C7_SquareListingPrintsFiveLines ==
    (frame.file = "square.py" /\ frame.mode = "run") =>
        /\ frame.exc = NoError
        /\ "i_squared" \in frame.defs =>
               \/ frame.i_squared = frame.i * frame.i
               \/ /\ OpAt(frame) = "assign_sq"
                  /\ frame.i_squared = (frame.i - 1) * (frame.i - 1)
        /\ (frame.i = 3 /\ OpAt(frame) = "print_sq") => frame.i_squared = 9
        /\ Len(frame.executed) <= 17
        /\ Finished(frame) =>
               /\ frame.out = "0 * 0 = 0\n1 * 1 = 1\n2 * 2 = 4\n3 * 3 = 9\n"
                              \o "4 * 4 = 16\n"
               /\ Len(frame.executed) = 17

C7_Witness ==
    /\ Completed
    /\ frame.file = "square.py"
    /\ frame.mode = "run"
    /\ frame.i = 4
    /\ frame.i_squared = 16

\* the statements executed so far, each once, in the order in which they
\* were first executed
RECURSIVE FirstRuns(_, _)
FirstRuns(e, k) ==
    IF k > Len(e) THEN <<>>
    ELSE IF \E j \in 1..(k - 1) : e[j] = e[k] THEN FirstRuns(e, k + 1)
    ELSE <<e[k]>> \o FirstRuns(e, k + 1)

Increasing(t) == \A j, k \in 1..Len(t) : j < k => t[j] < t[k]

\* C10: importing a module file processes it from top to bottom: the
\* function definitions are added to the module's namespace, which the
\* importing context can use once the import has completed, and every other
\* statement is carried out immediately during the import, in file order
\* (module1's line is printed before the import statement finishes).
C10_ImportProcessesFileTopToBottom ==
    frame.mode = "import" =>
        /\ Increasing(FirstRuns(frame.executed, 1))
        /\ status = "running" => frame.name \notin bound
        /\ \A k \in 1..Len(Program(frame.file)) :
               (Program(frame.file)[k].op = "def" /\ k \in Executed(frame))
                   => Program(frame.file)[k].arg \in frame.defs
        /\ frame.file = "module1.py" =>
               /\ Executed(frame) = 1..(frame.pc - 1)
               /\ frame.out = IF 2 \in Executed(frame)
                              THEN "My name is module1\n" ELSE ""
        /\ Completed =>
               /\ frame.name \in bound
               /\ modules[frame.name] = frame.defs
               /\ FunctionsOf(frame.file) \subseteq modules[frame.name]

C10_Witness ==
    /\ status = "running"
    /\ frame.file = "module1.py"
    /\ frame.mode = "import"
    /\ frame.out = "My name is module1\n"
    /\ "someusefulfunction" \in frame.defs
    /\ "module1" \notin bound

(***************************************************************************)
(* Properties of the notebook's cells, checked under SpecNb.               *)
(***************************************************************************)
\* C8: a function that has no return statement returns the None object when
\* it terminates: calling greeting() prints "Hello World!" exactly once per
\* call and returns None, so after x = greeting() the variable x holds None.
C8_GreetingPrintsOnceAndReturnsNone ==
    /\ (cell = "greeting()" /\ err = "") =>
           /\ out = "Hello World!\n"
           /\ shown = ""
    /\ (cell = "x = greeting()" /\ err = "") =>
           /\ out = "Hello World!\n"
           /\ ns["x"] = "None"
    /\ (cell \in {"greeting()", "x = greeting()"} /\ err # "") =>
           /\ out = ""
           /\ ns["greeting"] = Unbound

C8_Witness ==
    /\ cell = "x = greeting()"
    /\ err = ""
    /\ out = "Hello World!\n"
    /\ ns["x"] = "None"

\* the cell just executed changed at most the names of S
ChangedOnly(S) == \A n \in KernelNames \ S : ns'[n] = ns[n]

\* C9: the import forms bind only the names they state and leave every
\* other name unchanged: import math introduces only the name math; import
\* math as mathematics introduces the module under the name mathematics;
\* from math import sin introduces only sin and not the name math; from
\* math import * introduces all public names of math and not the name math.
C9_ImportsBindOnlyStatedNames ==
    [][ /\ cell' = "import math" =>
               /\ ChangedOnly({"math"})
               /\ ns'["math"] = "<module 'math'>"
        /\ cell' = "import math as mathematics" =>
               /\ ChangedOnly({"math", "cmath", "mathematics"})
               /\ ns'["mathematics"] = "<module 'math'>"
               /\ ns'["math"] = "<module 'math'>"
               /\ ns'["cmath"] = "<module 'cmath'>"
        /\ cell' = "from math import sin" =>
               /\ ChangedOnly({"sin"})
               /\ ns'["sin"] = "<math.sin>"
        /\ cell' = "from math import *" =>
               /\ ChangedOnly(MathNames)
               /\ {"sqrt", "sin", "cos", "pi", "hypot"} \subseteq MathNames
               /\ "math" \notin MathNames
               /\ \A n \in MathNames : ns'[n] = "<math." \o n \o ">"
      ]_vars

C9_Witness ==
    /\ cell = "from math import sin"
    /\ ns["sin"] = "<math.sin>"
    /\ ns["math"] = Unbound
    /\ ns["x"] = "None"

(***************************************************************************)
(* The cells of the notebook as a whole: what each cell shows, and which   *)
(* cells read something that another cell leaves behind.                   *)
(***************************************************************************)
\* what the cell just executed printed, displayed and raised
Outcome == [out |-> out, shown |-> shown, err |-> err]

Printed(text) == [out |-> text, shown |-> "", err |-> ""]

Displayed(text) == [out |-> "", shown |-> text, err |-> ""]

\* the outcome the notebook records for each cell
RecordedOutcome(c) ==
    CASE c = "sqrt(4)" -> Displayed("2.0")
      [] c = "math.sin(2)" -> Displayed("0.909")
      [] c = "x = math.sin(2)" -> Printed("0.909\n")
      [] c \in {"greeting()", "x = greeting()"} -> Printed("Hello World!\n")
      [] c = "print(x)" -> Printed("None\n")
      [] c = "square listing" ->
             Printed("0 * 0 = 0\n1 * 1 = 1\n2 * 2 = 4\n3 * 3 = 9\n4 * 4 = 16\n")
      [] c = "upperAndLower" ->
             Printed("Banana in lowercase: banana and in uppercase BANANA\n")
      [] c = "print_centred_in_stars" ->
             Printed("*****************Hello world!*****************\n")
      [] c = "%%file module1.py" -> Printed("Writing module1.py\n")
      [] c = "!python3 module1.py" -> Printed("My name is __main__\r\n")
      [] c = "import module1" -> Printed("My name is module1\n")
      [] c = "%%file vectools.py" -> Printed("Writing vectools.py\n")
      [] c = "!python3 vectools.py" ->
             Printed("The norm of [0 1 2] is 2.236.\r\n"
                     \o "The unitvector in direction of [0 1 2] is "
                     \o "[ 0.     0.447  0.894].\r\n")
      [] c \in {"primes5 loop", "primes5 guarded", "primes5 main"} ->
             Printed("2 3 5 7 11 ")
      [] OTHER -> Printed("")

\* the cells that use a name bound by another cell
ReadsNames == {"x = math.sin(2)", "greeting()", "x = greeting()", "print(x)"}

\* the cells that write a file, or use a file written by another cell
UsesFiles ==
    {"%%file module1.py", "!python3 module1.py", "import module1",
     "%%file vectools.py", "!python3 vectools.py"}

\* C11 as stated: the outcome of executing any one code cell (its output,
\* its result, and whether it raises) is the same regardless of which other
\* code cells were executed before it, so that it is always the outcome the
\* notebook records for the cell.
C11_EveryCellIndependentOfHistory ==
    cell # "" => Outcome = RecordedOutcome(cell)

\* C11 amended: the outcome of executing a code cell is the same regardless
\* of which other code cells were executed before it for every cell except
\* those that use a name bound by another cell (x = math.sin(2), greeting(),
\* x = greeting(), print(x)) and those that write or use a file (the two
\* %%file cells, the two !python3 cells, import module1); the cells do
\* share the interpreter's namespace and the working directory.
C11_SelfContainedCellsIndependentOfHistory ==
    (cell # "" /\ cell \notin ReadsNames \cup UsesFiles) =>
        Outcome = RecordedOutcome(cell)

\* a self-contained cell executed last, after the cells that bound x
C11_Witness ==
    /\ cell = "math.sin(2)"
    /\ steps = MaxCells
    /\ ns["x"] = "None"
    /\ Outcome = RecordedOutcome("math.sin(2)")

\* the cells that act outside the interpreter: %%file writes a file of the
\* working directory, !python3 starts another interpreter, import module1
\* reads module1.py and may write its byte-code
ActsOutside == UsesFiles

\* C12 as stated: executing any code cell of the notebook changes nothing
\* outside the interpreter's namespace except appending text to standard
\* output: no file is created or overwritten, no other process is started.
C12_NoCellActsOutsideInterpreter ==
    [][ /\ disk' = disk
        /\ procs' = procs
        /\ ~(\E file \in disk : out' = "Overwriting " \o file \o "\n")
      ]_vars

\* C12 amended: every code cell runs to its end before the next one starts,
\* and executing a code cell other than the two %%file cells, the two
\* !python3 cells and import module1 changes nothing outside the
\* interpreter's namespace except appending text to standard output; a
\* %%file cell creates or overwrites its file, a !python3 cell starts
\* another Python interpreter as a new process, and import module1 creates
\* at most the byte-code file of module1.
C12_OnlyFileAndShellCellsActOutside ==
    [][ /\ cell' \notin ActsOutside =>
               /\ disk' = disk
               /\ procs' = procs
               /\ kloaded' = kloaded
        /\ cell' = "%%file module1.py" =>
               /\ disk' = disk \cup {"module1.py"}
               /\ procs' = procs
        /\ cell' = "%%file vectools.py" =>
               /\ disk' = disk \cup {"vectools.py"}
               /\ procs' = procs
        /\ cell' \in {"!python3 module1.py", "!python3 vectools.py"} =>
               /\ procs' = procs + 1
               /\ disk' = disk
        /\ cell' = "import module1" =>
               /\ disk \subseteq disk'
               /\ disk' \subseteq
                      disk \cup {"__pycache__/module1.cpython-311.pyc"}
               /\ disk' # disk => "module1.py" \in disk
               /\ procs' = procs
      ]_vars

\* a cell that acts only inside the interpreter, executed after a file was
\* written and another interpreter was started
C12_Witness ==
    /\ cell = "print_centred_in_stars"
    /\ disk # {}
    /\ procs > 0
    /\ out = "*****************Hello world!*****************\n"

\* a string of exactly k stars, for a natural number k
RECURSIVE StarRun(_)
StarRun(k) == IF k = 0 THEN "" ELSE "*" \o StarRun(k - 1)

\* the line is the string with k stars before it and k stars after it
CentredWith(line, string, k) ==
    \E j \in 0..46 :
        /\ j = k
        /\ line = StarRun(j) \o string \o StarRun(j) \o "\n"

\* C13 as stated: print_centred_in_stars(string) prints one line consisting
\* of the unchanged input string with the same number of '*' characters
\* before and after it, that number being (46 - len(string)) // 2;
\* returnstars(n) returns a string of exactly n '*' characters for every
\* n >= 0; for 'Hello world!' this is 17 stars on each side.
C13_StarsEachSideIsHalfTheRest ==
    /\ sline # "" => CentredWith(sline, sarg, (46 - Len(sarg)) \div 2)
    /\ (scall = "returnstars" /\ narg >= 0) => sret = StarRun(narg)
    /\ (sline # "" /\ sarg = "Hello world!") =>
           sline = "*****************Hello world!*****************\n"

\* C13 amended: print_centred_in_stars(string) prints one line consisting
\* of the unchanged input string with the same number of '*' characters
\* before and after it, that number being (46 - len(string)) // 2 for a
\* string of at most 46 characters and 0 for a longer string; returnstars(n)
\* returns a string of exactly n '*' characters for every n >= 0 and the
\* empty string for n < 0; for 'Hello world!' this is 17 stars on each side.
C13_StarsEachSideIsHalfTheRestOrNone ==
    /\ sline # "" =>
           CentredWith(sline, sarg,
                       IF Len(sarg) <= 46 THEN (46 - Len(sarg)) \div 2 ELSE 0)
    /\ (scall = "returnstars" /\ narg >= 0) => sret = StarRun(narg)
    /\ (scall = "returnstars" /\ narg < 0) => sret = ""
    /\ (sline # "" /\ sarg = "Hello world!") =>
           CentredWith(sline, "Hello world!", 17)

\* the notebook's own call has been made
C13_Witness ==
    /\ scall = "print_centred_in_stars"
    /\ sarg = "Hello world!"
    /\ Len(sline) = 17 + 12 + 17 + 1

====
